---- MODULE Spec2Model ----
(***************************************************************************)
(* NAS Explorer: the scan lifecycle controller, the two-phase scanner, the *)
(* source manager and the catalog (SQLite schema with its triggers).       *)
(*                                                                         *)
(* Paths are sequences of components: the logical path /media/d/m.mkv is   *)
(* <<"media","d","m.mkv">>, the SMB path \\nas1\media\d is                 *)
(* <<"nas1","media","d">>.                                                 *)
(***************************************************************************)
EXTENDS Integers, Sequences, FiniteSets, TLC

\* ------------------------------------------------------------------ bounds
MaxScans == 2        \* start_scan calls that insert a scan_log row
MaxConfigOps == 2    \* add_source / remove_source calls
MaxFsChanges == 1    \* changes made on the shares by their owners
MaxStops == 1        \* stop_scan calls
MaxRaises == 1       \* exceptions inside a scan task: raised to its top, or in the walk
MaxEvents == 2       \* config changes, share changes, stops and exceptions in one run
scan_batch_size == 2 \* settings.scan_batch_size, scaled down from 1000
MaxPending == 1      \* finished futures the drain loop has not consumed yet
MaxHostUps == 1      \* hosts that come back while the service runs
error_log_tail == 1  \* the 100 of error_log[-100:], scaled down
MaxFileLen == 3      \* bytes of a file that is fingerprinted
MaxSample == 2       \* settings.hash_sample_size_kb * 1024, scaled down to 1 and 2 bytes
MaxLogLen == 2       \* entries of an error_log, and files counted, where the scan state stands alone

NULL == "NULL"          \* None in a string or path column
None == [none |-> TRUE] \* None where a record is expected
ScanIds == 1..MaxScans

\* ------------------------------------------------------------- python values
PyList(xs) == [py |-> "list", v |-> xs]
PyObj(x) == [py |-> "SMBSource", v |-> x]
Value(x) == [kind |-> "value", v |-> x]
Raise(e) == [kind |-> "raise", v |-> e]

\* ------------------------------------------------------------- credentials
\* A credential string is a sequence of pieces: a piece of text, or a Fernet
\* token. "" is <<>>, "admin" is <<Text("admin")>>, a string that begins with
\* "enc:" has _ENCRYPTED_PREFIX as its first piece.
Text(s) == [kind |-> "text", s |-> s, of |-> <<>>]
Token(plaintext) == [kind |-> "token", s |-> "", of |-> plaintext]
_ENCRYPTED_PREFIX == Text("enc:")

\* crypto.is_encrypted: bool(value) and value.startswith("enc:")
is_encrypted(value) == value # <<>> /\ Head(value) = _ENCRYPTED_PREFIX

\* crypto.encrypt: "" stays "", anything else becomes "enc:" + token
encrypt(plaintext) ==
  IF plaintext = <<>> THEN plaintext ELSE <<_ENCRYPTED_PREFIX, Token(plaintext)>>

\* crypto.decrypt: "" and unprefixed values as they are; a prefixed value is
\* the plaintext of its token, or ValueError when what follows "enc:" is not
\* a token of this key
decrypt(value) ==
  IF value = <<>> THEN Value(value)
  ELSE IF Head(value) # _ENCRYPTED_PREFIX THEN Value(value)
  ELSE IF Len(value) = 2 /\ value[2].kind = "token" THEN Value(value[2].of)
  ELSE Raise("ValueError")

\* ----------------------------------------------------------------- sources
\* The entries add_source is called with. SrcA and SrcB are the same share
\* name on two hosts, added with the default label (label or share).
SrcA == [host |-> "nas1", share |-> "media", subfolder |-> "/", label |-> "media",
         username |-> <<Text("admin")>>, password |-> <<Text("pw")>>]
SrcB == [host |-> "nas2", share |-> "media", subfolder |-> "/", label |-> "media",
         username |-> <<Text("admin")>>, password |-> <<Text("pw")>>]
SourceUniverse == {SrcA, SrcB}
Hosts == {"nas1", "nas2"}

smb_root(s) ==
  IF s.subfolder # "" /\ s.subfolder # "/"
    THEN <<s.host, s.share, s.subfolder>>
    ELSE <<s.host, s.share>>

source_id(s) ==
  IF s.subfolder = "/" \/ s.subfolder = ""
    THEN s.host \o "/" \o s.share
    ELSE s.host \o "/" \o s.share \o s.subfolder

LabelOf(s) == IF s.label # "" THEN s.label ELSE s.share

\* ------------------------------------------------------------ path conversion
\* The one element of a singleton {e}: e is computed once and used by value.
The(S) == CHOOSE x \in S : TRUE

IsPrefix(a, b) == Len(a) <= Len(b) /\ SubSeq(b, 1, Len(a)) = a
Tail_(p, n) == SubSeq(p, n + 1, Len(p))
Last(p) == p[Len(p)]
Parent(p) == SubSeq(p, 1, Len(p) - 1)

smb_to_relative(smb_path, source) ==
  LET root == smb_root(source)
      label == LabelOf(source)
  IN  IF smb_path = root THEN <<label>>
      ELSE IF IsPrefix(root, smb_path)
        THEN <<label>> \o Tail_(smb_path, Len(root))
        ELSE <<Last(smb_path)>>

RECURSIVE FirstWithLabel(_, _, _)
FirstWithLabel(srcs, i, source_label) ==
  IF i > Len(srcs) THEN 0
  ELSE IF LabelOf(srcs[i]) = source_label THEN i
  ELSE FirstWithLabel(srcs, i + 1, source_label)

\* for source in sources: iterating over anything but a list raises TypeError;
\* None is the empty path
relative_to_smb(relative_path, sources) ==
  IF sources.py # "list" THEN Raise("TypeError")
  ELSE LET source_label == relative_path[1]
           remaining == Tail_(relative_path, 1)
           i == FirstWithLabel(sources.v, 1, source_label)
       IN  IF i = 0 THEN Value(<<>>)
           ELSE Value(smb_root(sources.v[i]) \o remaining)

\* ------------------------------------------------------------------ shares
\* What the SMB servers hold: SMB path -> [is_directory, size, mtime,
\* readable]. The server lists an entry that is not readable, and refuses
\* stat and open on it.
Dir == [is_directory |-> TRUE, size |-> 0, mtime |-> 1, readable |-> TRUE]
File(size, mtime) ==
  [is_directory |-> FALSE, size |-> size, mtime |-> mtime, readable |-> TRUE]
Denied == [is_directory |-> FALSE, size |-> 0, mtime |-> 1, readable |-> FALSE]

InitShares ==
  (<<"nas1", "media">> :> Dir) @@
  (<<"nas1", "media", "a.txt">> :> File(5, 1)) @@
  (<<"nas1", "media", "d">> :> Dir) @@
  (<<"nas1", "media", "d", "m.mkv">> :> File(9, 1)) @@
  (<<"nas1", "media", "d", "x.bin">> :> Denied) @@
  (<<"nas2", "media">> :> Dir) @@
  (<<"nas2", "media", "a.txt">> :> File(5, 2))

Restrict(f, S) == [x \in S |-> f[x]]

\* smb_fs.stat: None when smbclient.stat raises
stat(fs, smb_path) ==
  IF smb_path \in DOMAIN fs /\ fs[smb_path].readable THEN fs[smb_path] ELSE None

Children(fs, dirpath) == {p \in DOMAIN fs : Len(p) = Len(dirpath) + 1 /\ Parent(p) = dirpath}

\* a set of paths as a sequence, in the order the server lists them
RECURSIVE Listing(_)
Listing(S) ==
  IF S = {} THEN <<>>
  ELSE The({<<p>> \o Listing(rest) : p \in {The(S)}, rest \in {S \ {The(S)}}})

dirnames(fs, dirpath) == Listing({p \in Children(fs, dirpath) : fs[p].is_directory})
filenames(fs, dirpath) == Listing({p \in Children(fs, dirpath) : ~fs[p].is_directory})

\* smb_fs.get_mime_type: by extension, application/octet-stream otherwise
get_mime_type(name) ==
  CASE name = "a.txt" -> "text/plain"
    [] name = "m.mkv" -> "video/x-matroska"
    [] name = "p.jpg" -> "image/jpeg"
    [] OTHER -> "application/octet-stream"

\* ------------------------------------------------------------- categorizer
EXTENSION_CATEGORIES(name) ==
  CASE name = "a.txt" -> {"document", "text"}
    [] name = "m.mkv" -> {"media", "video"}
    [] name = "p.jpg" -> {"media", "image", "photo"}
    [] OTHER -> {}

MimeTags(mime_type) ==
  CASE mime_type = "video/x-matroska" -> {"media", "video"}
    [] mime_type = "image/jpeg" -> {"media", "image"}
    [] mime_type = "text/plain" -> {"text"}
    [] OTHER -> {}

\* rules 1, 2 and 3 as the files of the shares meet them: none is 1 GiB or
\* more, has a name a heuristic of rule 5 matches, or is older than the
\* threshold of rule 4 (categorize_file_at has these rules)
categorize_file(filename, mime_type, size, modified_at) ==
  EXTENSION_CATEGORIES(filename) \cup MimeTags(mime_type) \cup
  (IF size = 0 THEN {"empty"} ELSE {})

\* ----------------------------------------------------------------- catalog
\* files: path -> row (path is UNIQUE); seq: the AUTOINCREMENT counter of
\* files; files_fts: the entries the triggers wrote, one record per rowid
\* and indexed values.
EmptyDb ==
  [files |-> [p \in {} |-> NULL], file_tags |-> {}, file_metadata |-> {},
   files_fts |-> {}, seq |-> 0, scan_log |-> <<>>]

FtsEntry(row) ==
  [rowid |-> row.id, name |-> row.name, full_text |-> row.full_text, path |-> row.path]

\* The same tables with foreign_keys off: nothing follows a row that goes
Cascade_off(d, id) == d

\* FOREIGN KEY (file_id) REFERENCES files(id) ON DELETE CASCADE
Cascade(d, id) ==
  [d EXCEPT !.file_tags = {t \in @ : t.file_id # id},
            !.file_metadata = {m \in @ : m.file_id # id}]

\* DELETE FROM files WHERE path = ?: the row goes, the trigger files_ad takes
\* its entry out of files_fts, the foreign keys cascade
DeleteRow(d, path) ==
  IF path \notin DOMAIN d.files THEN d
  ELSE LET old == d.files[path]
           d1 == Cascade(d, old.id)
       IN  [d1 EXCEPT !.files = Restrict(@, DOMAIN @ \ {path}),
                      !.files_fts = @ \ {FtsEntry(old)}]

\* The row REPLACE removes to satisfy UNIQUE(path): the foreign keys cascade,
\* and the delete trigger files_ad fires only when recursive_triggers is on,
\* which get_connection does not set
ReplaceConflict(d, path) ==
  IF path \notin DOMAIN d.files THEN d
  ELSE LET old == d.files[path]
           d1 == Cascade(d, old.id)
       IN  [d1 EXCEPT !.files = Restrict(@, DOMAIN @ \ {path})]

\* INSERT OR REPLACE INTO files (...) VALUES (...): a new id, trigger files_ai
InsertOrReplace(d, r) ==
  LET d1 == ReplaceConflict(d, r.path)
      row == [r EXCEPT !.id = d.seq + 1]
  IN  [d1 EXCEPT !.files = (r.path :> row) @@ @,
                 !.files_fts = @ \cup {FtsEntry(row)},
                 !.seq = d.seq + 1]

RECURSIVE _flush_batch_phase1(_, _)
_flush_batch_phase1(d, batch) ==
  IF batch = <<>> THEN d
  ELSE The({_flush_batch_phase1(d1, Tail(batch)) : d1 \in {InsertOrReplace(d, Head(batch))}})

\* path LIKE '/<label>/%'
Like(path, label) == Len(path) >= 2 /\ path[1] = label

_apply_tags_bulk_skipped(d, label) == d

_apply_tags_bulk(d, label) ==
  LET rows == {d.files[p] : p \in {q \in DOMAIN d.files : Like(q, label) /\ ~d.files[q].is_directory}}
      new == UNION {{[file_id |-> r.id, tag |-> t] :
                       t \in categorize_file(r.name, r.mime_type, r.size, r.modified_at)} : r \in rows}
  IN  [d EXCEPT !.file_tags = @ \cup new]

RECURSIVE DeleteAll(_, _)
DeleteAll(d, paths) ==
  IF paths = {} THEN d
  ELSE LET p == CHOOSE x \in paths : TRUE
       IN  The({DeleteAll(d1, paths \ {p}) : d1 \in {DeleteRow(d, p)}})

StalePaths(d, label, seen_paths) ==
  {p \in DOMAIN d.files : Like(p, label) /\ p \notin seen_paths}

_remove_stale(d, label, seen_paths) ==
  LET stale == StalePaths(d, label, seen_paths)
      root == IF <<label>> \notin seen_paths THEN {<<label>>} ELSE {}
  IN  DeleteAll(d, stale \cup root)

\* UPDATE files SET file_hash = COALESCE(?, file_hash),
\*   full_text = COALESCE(?, full_text) WHERE id = ?   (trigger files_au)
UpdateEnriched(d, fid, file_hash, full_text) ==
  LET hit == {p \in DOMAIN d.files : d.files[p].id = fid}
  IN  IF hit = {} THEN d
      ELSE LET p == CHOOSE x \in hit : TRUE
               old == d.files[p]
               new == [old EXCEPT
                         !.file_hash = IF file_hash # NULL THEN file_hash ELSE @,
                         !.full_text = IF full_text # NULL THEN full_text ELSE @]
           IN  [d EXCEPT !.files[p] = new,
                         !.files_fts = (@ \ {FtsEntry(old)}) \cup {FtsEntry(new)}]

\* ------------------------------------------------------ config persistence
\* The sources file holds the entries in order. A missing file and a file
\* with no entries are both <<>>.
SafeEntry(src) ==
  [src EXCEPT
     !.password = IF @ # <<>> /\ ~is_encrypted(@) THEN encrypt(@) ELSE @,
     !.username = IF @ # <<>> /\ ~is_encrypted(@) THEN encrypt(@) ELSE @]

\* nas_manager.save_config: the file it writes
save_config(cfg) == [i \in DOMAIN cfg |-> SafeEntry(cfg[i])]

\* load_config found a plaintext credential in the entry
IsPlain(src) ==
  \/ src.password # <<>> /\ ~is_encrypted(src.password)
  \/ src.username # <<>> /\ ~is_encrypted(src.username)

\* decrypt raises on a credential of the entry
Undecryptable(src) ==
  decrypt(src.password).kind = "raise" \/ decrypt(src.username).kind = "raise"

\* nas_manager.load_config: the config it returns, or the ValueError of
\* decrypt, and the file it leaves (rewritten when a plaintext credential
\* was found)
load_config(file) ==
  IF \E i \in DOMAIN file : Undecryptable(file[i])
    THEN [kind |-> "raise", v |-> <<>>, file |-> file]
    ELSE LET cfg == [i \in DOMAIN file |->
                       [file[i] EXCEPT !.password = decrypt(@).v,
                                       !.username = decrypt(@).v]]
         IN  [kind |-> "value", v |-> cfg,
              file |-> IF \E i \in DOMAIN file : IsPlain(file[i])
                         THEN save_config(cfg) ELSE file]

\* ------------------------------------------------------------------- state
VARIABLES
  shares,      \* SMB path -> entry: what the servers hold
  down,        \* hosts that refuse a session
  sessions,    \* smb_fs._registered_sessions
  config,      \* nas_connection.json: the stored source entries, in order
  db,          \* the catalog database
  scan_state,  \* scanner._scan_state
  cancel,      \* scanner._cancel_event
  caller,      \* the API call in progress (start_scan, stop_scan)
  ret,         \* what the last API call returned
  task,        \* the scan threads, by scan_log id
  budget,      \* how often the bounded operations have happened
  removed,     \* history: labels purged by a successful remove_source
  cancelReq,   \* history: scans during which stop_scan set the cancel flag
  io,          \* history: what save_config was last given, what load_config last returned
  unreached,   \* history: sources whose add_source returned "Connection failed"
  held,        \* the dict a caller of get_scan_state holds
  call         \* the function last applied by itself: its name, inputs and result

vars == <<shares, down, sessions, config, db, scan_state, cancel, caller, ret,
          task, budget, removed, cancelReq, io, unreached, held, call>>

EmptyFn == [p \in {} |-> 0]

\* the dict start_scan rebinds _scan_state to, with running as given
FreshState(running, phase) ==
  [running |-> running, scan_id |-> 0, phase |-> phase, files_scanned |-> 0,
   files_added |-> 0, files_updated |-> 0, files_removed |-> 0,
   files_enriched |-> 0, files_to_enrich |-> 0, errors |-> 0,
   current_source |-> "", error_log |-> <<>>]

IdleTask ==
  [pc |-> "none", full_scan |-> FALSE, sources |-> <<>>, i |-> 0, walk |-> <<>>,
   seen_paths |-> {}, batch |-> <<>>, existing |-> EmptyFn, queue |-> <<>>,
   done |-> {}, final_status |-> "",
   \* history: what the walks of this scan visited, the sources it walked,
   \* the share and config changes counted at its start, and the file
   \* hashes at its start
   visited |-> {}, walked |-> {}, fs0 |-> 0, cfg0 |-> 0, hash0 |-> EmptyFn,
   \* history: the listed files whose stat failed in this scan
   unstatted |-> {},
   \* history: the loop that saw the cancel flag set and broke off, and the
   \* submitted rows no worker had started on when the drain loop did
   observed |-> "", dropped |-> 0,
   \* history: the files this scan put into a batch, as SMB path and row path
   indexed |-> {}]

\* source_id, scan_was_running and polls are the locals of a /remove-source
\* request. history: seen is the scan that was running when stop_scan read
\* running under the lock.
IdleCaller ==
  [pc |-> "idle", source_id |-> "", scan_was_running |-> FALSE, polls |-> 0, seen |-> 0]

NoIo == [op |-> "none", saved |-> FALSE, given |-> <<>>,
         result |-> [kind |-> "none", v |-> <<>>]]

\* No caller has asked for the scan state; no function has been applied.
NotHeld == [taken |-> FALSE, shared |-> FALSE, d |-> FreshState(FALSE, "")]
NoCall == [fn |-> "none", args |-> <<>>, result |-> <<>>]

\* The sources files the service starts with, written by save_config.
InitConfigs == {save_config(<<SrcA>>), save_config(<<SrcA, SrcB>>)}

Init ==
  /\ shares = InitShares
  /\ down \in SUBSET Hosts
  /\ config \in InitConfigs
  \* register_all_sources ran at startup
  /\ sessions = {config[i].host : i \in DOMAIN config} \ down
  /\ db = EmptyDb
  /\ scan_state = FreshState(FALSE, "")
  /\ cancel = FALSE
  /\ caller = IdleCaller
  /\ ret = ""
  /\ task = [k \in ScanIds |-> IdleTask]
  /\ budget = [config |-> 0, fs |-> 0, stops |-> 0, raises |-> 0, hosts |-> 0]
  /\ removed = {}
  /\ cancelReq = {}
  /\ io = NoIo
  /\ unreached = {}
  /\ held = NotHeld
  /\ call = NoCall

\* The environment events of the run so far.
Events == budget.config + budget.fs + budget.stops + budget.raises + budget.hosts

Active(k) == task[k].pc \notin {"none", "done"}

\* nas_manager.get_sources: the entries load_config returns, as SMBSource
\* objects
get_sources(cfg) == load_config(cfg).v

\* smb_fs.register_source: TRUE when the host has, or gets, a session
register_source_succeeds(host) == TRUE

CanRegister(host) == host \in sessions \/ host \notin down

\* ------------------------------------------------------------ start_scan
\* The section of start_scan under _scan_lock.
start_scan_clears_first(st, ev) ==
  IF st.running
    THEN [error |-> TRUE, state |-> st, cancel |-> FALSE]
    ELSE [error |-> FALSE, state |-> FreshState(TRUE, "indexing"), cancel |-> FALSE]

start_scan_locked(st, ev) ==
  IF st.running
    THEN [error |-> TRUE, state |-> st, cancel |-> ev]
    ELSE [error |-> FALSE, state |-> FreshState(TRUE, "indexing"), cancel |-> FALSE]

\* The file_hash column of the file rows, by path.
FileHashes(d) ==
  [p \in {q \in DOMAIN d.files : ~d.files[q].is_directory} |-> d.files[p].file_hash]

NewLogRow ==
  [status |-> "running", completed |-> FALSE, files_scanned |-> 0, files_added |-> 0,
   files_updated |-> 0, files_removed |-> 0, errors |-> 0, error_log |-> <<>>]

\* start_scan(full_scan): the busy return, the return for an empty source
\* list, or the scan_log row and the started thread; and the two exceptions
\* that leave it after running was set: the ValueError of decrypt out of
\* get_sources, and the error of the INSERT into scan_log (inserted is FALSE
\* when the database refuses it). The caller is left at the position given.
StartScan(full, returned, inserted) ==
  LET r == start_scan_locked(scan_state, cancel)
      loaded == load_config(config)
      scan_id == Len(db.scan_log) + 1
  IN
  /\ caller' = returned
  /\ cancel' = r.cancel
  /\ IF r.error
       THEN /\ ret' = "Scan already in progress"
            /\ scan_state' = r.state
            /\ UNCHANGED <<db, task, config>>
       ELSE IF loaded.kind = "raise"
       THEN /\ ret' = "ValueError"
            /\ scan_state' = r.state
            /\ UNCHANGED <<db, task, config>>
       ELSE IF loaded.v = <<>>
       THEN /\ ret' = "No NAS sources configured"
            /\ scan_state' = [r.state EXCEPT !.running = FALSE, !.phase = ""]
            /\ config' = loaded.file
            /\ UNCHANGED <<db, task>>
       ELSE IF ~inserted
       THEN /\ ret' = "OperationalError"
            /\ scan_state' = r.state
            /\ config' = loaded.file
            /\ UNCHANGED <<db, task>>
       ELSE /\ Len(db.scan_log) < MaxScans
            /\ ret' = "started"
            /\ config' = loaded.file
            /\ db' = [db EXCEPT !.scan_log = Append(@, NewLogRow)]
            /\ scan_state' = [r.state EXCEPT !.scan_id = scan_id]
            /\ task' = [task EXCEPT ![scan_id] =
                          [IdleTask EXCEPT !.pc = "begin", !.full_scan = full,
                                           !.fs0 = budget.fs, !.cfg0 = budget.config,
                                           !.hash0 = FileHashes(db)]]
  /\ UNCHANGED <<held, call, io, unreached, shares, down, sessions, budget, removed, cancelReq>>

\* start_scan called by a client of the service.
start_scan(full) == caller.pc = "idle" /\ StartScan(full, caller, TRUE)

\* ------------------------------------------------------------- stop_scan
\* The section of stop_scan under _scan_lock: TRUE when it returns there.
stop_scan_never_returns(st) == FALSE

stop_scan_locked(st) == ~st.running

StopScanCheck ==
  /\ caller.pc = "idle"
  /\ budget.stops < MaxStops
  /\ Events < MaxEvents
  /\ budget' = [budget EXCEPT !.stops = @ + 1]
  /\ IF stop_scan_locked(scan_state)
       THEN ret' = "No scan running" /\ UNCHANGED caller
       ELSE ret' = "" /\ caller' = [IdleCaller EXCEPT !.pc = "stop_set",
                                                       !.seen = scan_state.scan_id]
  /\ UNCHANGED <<held, call, io, unreached, shares, down, sessions, config, db, scan_state, cancel, task, removed, cancelReq>>

StopScanSet ==
  /\ caller.pc = "stop_set"
  /\ cancel' = TRUE
  /\ caller' = IdleCaller
  /\ ret' = "Scan cancel signal sent"
  /\ cancelReq' = IF scan_state.running
                    THEN cancelReq \cup {k \in ScanIds : Active(k) /\ scan_state.scan_id = k}
                    ELSE cancelReq
  /\ UNCHANGED <<held, call, io, unreached, shares, down, sessions, config, db, scan_state, task, budget, removed>>

\* ----------------------------------------------------------- nas_manager
ConfiguredLabels(cfg) == {LabelOf(cfg[i]) : i \in DOMAIN cfg}

RECURSIVE Kept(_, _)
Kept(srcs, sid) ==
  IF srcs = <<>> THEN <<>>
  ELSE IF source_id(Head(srcs)) = sid THEN Kept(Tail(srcs), sid)
  ELSE <<Head(srcs)>> \o Kept(Tail(srcs), sid)

\* DELETE FROM files WHERE path LIKE '/<label>/%' OR path = '/<label>',
\* after the same rows' file_tags and file_metadata
PurgeLabel(d, removed_label) ==
  DeleteAll(d, {p \in DOMAIN d.files : Like(p, removed_label) \/ p = <<removed_label>>})

remove_source_unchecked(file, d, sid) ==
  [success |-> TRUE, config |-> save_config(Kept(load_config(file).v, sid)),
   db |-> PurgeLabel(d, "media"), label |-> "media"]

remove_source(file, d, sid) ==
  LET cfg == load_config(file).v
      kept == Kept(cfg, sid)
      hit == {i \in DOMAIN cfg : source_id(cfg[i]) = sid}
  IN  IF Len(kept) = Len(cfg)
        THEN [success |-> FALSE, config |-> load_config(file).file, db |-> d, label |-> ""]
        ELSE LET removed_label == LabelOf(cfg[CHOOSE i \in hit : \A j \in hit : j <= i])
             IN  [success |-> TRUE, config |-> save_config(kept),
                  db |-> PurgeLabel(d, removed_label), label |-> removed_label]

RemoveSource(sid) ==
  LET r == remove_source(config, db, sid) IN
  /\ caller.pc = "idle"
  /\ budget.config < MaxConfigOps
  /\ Events < MaxEvents
  /\ budget' = [budget EXCEPT !.config = @ + 1]
  /\ config' = r.config
  /\ db' = r.db
  /\ removed' = IF r.success THEN removed \cup {r.label} ELSE removed
  /\ ret' = IF r.success THEN "Removed source" ELSE "Source not found"
  /\ UNCHANGED <<held, call, io, unreached, shares, down, sessions, scan_state, cancel, caller, task, cancelReq>>

add_source_registers_first(file, s) ==
  LET cfg == load_config(file).v
  IN  IF \E i \in DOMAIN cfg : source_id(cfg[i]) = source_id(s)
        THEN [success |-> FALSE, config |-> load_config(file).file, registered |-> FALSE,
              message |-> "Source already exists"]
        ELSE IF ~CanRegister(s.host)
        THEN [success |-> FALSE, config |-> load_config(file).file, registered |-> FALSE,
              message |-> "Connection failed"]
        ELSE [success |-> TRUE,
              config |-> save_config(Append(cfg, [s EXCEPT !.label = LabelOf(s)])),
              registered |-> TRUE, message |-> "Added source"]

add_source_unchecked(file, s) ==
  [success |-> CanRegister(s.host),
   config |-> save_config(Append(load_config(file).v, [s EXCEPT !.label = LabelOf(s)])),
   registered |-> CanRegister(s.host),
   message |-> IF CanRegister(s.host) THEN "Added source" ELSE "Connection failed"]

add_source(file, s) ==
  LET cfg == load_config(file).v
  IN  IF \E i \in DOMAIN cfg : source_id(cfg[i]) = source_id(s)
        THEN [success |-> FALSE, config |-> load_config(file).file, registered |-> FALSE,
              message |-> "Source already exists"]
        ELSE [success |-> CanRegister(s.host),
              config |-> save_config(Append(cfg, [s EXCEPT !.label = LabelOf(s)])),
              registered |-> CanRegister(s.host),
              message |-> IF CanRegister(s.host) THEN "Added source"
                                                 ELSE "Connection failed"]

AddSource(s) ==
  LET r == add_source(config, s) IN
  /\ caller.pc = "idle"
  /\ budget.config < MaxConfigOps
  /\ Events < MaxEvents
  /\ budget' = [budget EXCEPT !.config = @ + 1]
  /\ config' = r.config
  /\ sessions' = IF r.registered THEN sessions \cup {s.host} ELSE sessions
  /\ ret' = r.message
  /\ unreached' = IF r.message = "Connection failed"
                    THEN unreached \cup {source_id(s)} ELSE unreached
  /\ UNCHANGED <<held, call, io, shares, down, db, scan_state, cancel, caller, task, removed, cancelReq>>

\* ------------------------------------------------------------ the shares
\* The owners of the shares change a file or delete it.
Changing == {<<"nas1", "media", "a.txt">>}
ShareFiles == {p \in DOMAIN shares : ~shares[p].is_directory}

FsTouch(p) ==
  /\ budget.fs < MaxFsChanges
  /\ Events < MaxEvents
  /\ p \in ShareFiles
  /\ shares' = [shares EXCEPT ![p].mtime = @ + 2]
  /\ budget' = [budget EXCEPT !.fs = @ + 1]
  /\ UNCHANGED <<held, call, io, unreached, down, sessions, config, db, scan_state, cancel, caller, ret, task,
                 removed, cancelReq>>

FsRemove(p) ==
  /\ budget.fs < MaxFsChanges
  /\ Events < MaxEvents
  /\ p \in ShareFiles
  /\ shares' = Restrict(shares, DOMAIN shares \ {p})
  /\ budget' = [budget EXCEPT !.fs = @ + 1]
  /\ UNCHANGED <<held, call, io, unreached, down, sessions, config, db, scan_state, cancel, caller, ret, task,
                 removed, cancelReq>>

\* The owner empties a share: nothing but its root stays.
FsEmpty(root) ==
  /\ budget.fs < MaxFsChanges
  /\ Events < MaxEvents
  /\ \E q \in DOMAIN shares : q # root /\ IsPrefix(root, q)
  /\ shares' = Restrict(shares, {q \in DOMAIN shares : q = root \/ ~IsPrefix(root, q)})
  /\ budget' = [budget EXCEPT !.fs = @ + 1]
  /\ UNCHANGED <<held, call, io, unreached, down, sessions, config, db, scan_state, cancel, caller, ret, task,
                 removed, cancelReq>>

\* A host that refused sessions accepts them again.
HostUp(h) ==
  /\ h \in down
  /\ budget.hosts < MaxHostUps
  /\ Events < MaxEvents
  /\ down' = down \ {h}
  /\ budget' = [budget EXCEPT !.hosts = @ + 1]
  /\ UNCHANGED <<held, call, io, unreached, shares, sessions, config, db, scan_state, cancel, caller, ret, task,
                 removed, cancelReq>>

\* --------------------------------------------------------------- Phase 1
DirRow(source, dirpath, fs) ==
  LET rel_dir == smb_to_relative(dirpath, source)
  IN  [id |-> 0, path |-> rel_dir, name |-> Last(dirpath),
       parent_path |-> IF rel_dir = <<LabelOf(source)>> THEN <<>> ELSE Parent(rel_dir),
       is_directory |-> TRUE, size |-> 0, mime_type |-> "inode/directory",
       file_hash |-> NULL, modified_at |-> fs[dirpath].mtime, full_text |-> NULL]

FileRow(source, dirpath, smb_filepath, file_stat) ==
  [id |-> 0, path |-> smb_to_relative(smb_filepath, source), name |-> Last(smb_filepath),
   parent_path |-> smb_to_relative(dirpath, source),
   is_directory |-> FALSE, size |-> file_stat.size,
   mime_type |-> get_mime_type(Last(smb_filepath)),
   file_hash |-> NULL, modified_at |-> file_stat.mtime, full_text |-> NULL]

\* The incremental skip of lines 159-162.
Unchanged(full_scan, existing, rel_path, mtime) ==
  ~full_scan /\ rel_path \in DOMAIN existing /\ existing[rel_path] = mtime

\* One turn of "for filename in filenames": acc is [batch, seen_paths, st, d]
\* and the history of failed stats
IndexFile(acc, smb_filepath, fs, source, dirpath, t) ==
  LET rel_path == smb_to_relative(smb_filepath, source)
      file_stat == stat(fs, smb_filepath)
      a1 == [acc EXCEPT !.seen_paths = @ \cup {rel_path},
                        !.st.files_scanned = @ + 1]
      batch == Append(acc.batch, FileRow(source, dirpath, smb_filepath, file_stat))
      st == IF rel_path \in DOMAIN t.existing
              THEN [acc.st EXCEPT !.files_scanned = @ + 1, !.files_updated = @ + 1]
              ELSE [acc.st EXCEPT !.files_scanned = @ + 1, !.files_added = @ + 1]
  IN  IF file_stat = None THEN [a1 EXCEPT !.unstatted = @ \cup {rel_path}]
      ELSE IF Unchanged(t.full_scan, t.existing, rel_path, file_stat.mtime) THEN a1
      ELSE IF Len(batch) >= scan_batch_size
        THEN [a1 EXCEPT !.batch = <<>>, !.st = st,
                        !.d = _flush_batch_phase1(acc.d, batch),
                        !.indexed = @ \cup {[smb |-> smb_filepath, rel |-> rel_path]}]
        ELSE [a1 EXCEPT !.batch = batch, !.st = st,
                        !.indexed = @ \cup {[smb |-> smb_filepath, rel |-> rel_path]}]

RECURSIVE IndexFiles(_, _, _, _, _, _)
IndexFiles(acc, names, fs, source, dirpath, t) ==
  IF names = <<>> THEN acc
  ELSE The({IndexFiles(a, rest, fs, source, dirpath, t) :
              a \in {IndexFile(acc, Head(names), fs, source, dirpath, t)},
              rest \in {Tail(names)}})

\* One turn of "for dirpath, dirnames, filenames in walk(source)".
IndexDir(t, st, d, fs, source, dirpath) ==
  LET rel_dir == smb_to_relative(dirpath, source)
      acc0 == [batch |-> Append(t.batch, DirRow(source, dirpath, fs)),
               seen_paths |-> t.seen_paths \cup {rel_dir}, st |-> st, d |-> d,
               unstatted |-> t.unstatted, indexed |-> t.indexed]
  IN  The({IndexFiles(a, names, fs, source, dirpath, t) :
             a \in {acc0}, names \in {filenames(fs, dirpath)}})

\* SELECT path, modified_at FROM files WHERE path LIKE '/<label>/%'
LoadExisting(d, label) ==
  [p \in {q \in DOMAIN d.files : Like(q, label)} |-> d.files[p].modified_at]

\* --------------------------------------------------------------- Phase 2
\* scanner._compute_hash: None when the file cannot be opened
_compute_hash(fs, smb_path, file_size) ==
  IF stat(fs, smb_path) = None THEN NULL
  ELSE "sha256:" \o ToString(file_size) \o ":" \o ToString(fs[smb_path].mtime)

_extract_text_smb(fs, smb_path, mime) ==
  IF mime = "text/plain" /\ stat(fs, smb_path) # None THEN "text" ELSE NULL

_extract_metadata_smb(fs, smb_path, mime) ==
  IF stat(fs, smb_path) # None THEN "{}" ELSE NULL

IsMedia(mime) == mime \in {"video/x-matroska", "image/jpeg"}

\* for source in sources: sp = relative_to_smb(path, source), an exception
\* of the call skips the source. <<>> when no source gave a path.
RECURSIVE ResolveForEnrich(_, _, _)
ResolveForEnrich(path, sources, i) ==
  IF i > Len(sources) THEN <<>>
  ELSE LET sp == relative_to_smb(path, PyObj(sources[i]))
       IN  IF sp.kind = "raise" THEN ResolveForEnrich(path, sources, i + 1)
           ELSE IF sp.v # <<>> THEN sp.v
           ELSE ResolveForEnrich(path, sources, i + 1)

_enrich_file(file_row, ev, cfg, fs) ==
  IF ev THEN None
  ELSE LET smb_path == ResolveForEnrich(file_row.path, get_sources(cfg), 1)
       IN  IF smb_path = <<>> THEN None
           ELSE [file_id |-> file_row.id, path |-> file_row.path,
                 file_hash |-> _compute_hash(fs, smb_path, file_row.size),
                 full_text |-> _extract_text_smb(fs, smb_path, file_row.mime_type),
                 metadata |-> IF IsMedia(file_row.mime_type)
                                THEN _extract_metadata_smb(fs, smb_path, file_row.mime_type)
                                ELSE NULL]

\* SELECT id, path, mime_type, size FROM files
\*   WHERE is_directory = 0 AND file_hash IS NULL
EnrichRows(d) ==
  {[id |-> d.files[p].id, path |-> p, mime_type |-> d.files[p].mime_type,
    size |-> d.files[p].size] :
     p \in {q \in DOMAIN d.files : ~d.files[q].is_directory /\ d.files[q].file_hash = NULL}}

RECURSIVE ById(_)
ById(rows) ==
  IF rows = {} THEN <<>>
  ELSE LET r == CHOOSE x \in rows : \A y \in rows : x.id <= y.id
       IN  <<r>> \o ById(rows \ {r})

ToEnrich(d) == ById(EnrichRows(d))

\* What the drain loop does with one result: [d, st].
ApplyResult(d, st, result) ==
  IF result = None THEN [d |-> d, st |-> st]
  ELSE LET d1 == IF result.file_hash # NULL \/ result.full_text # NULL
                   THEN UpdateEnriched(d, result.file_id, result.file_hash, result.full_text)
                   ELSE d
           exists == \E p \in DOMAIN d.files : d.files[p].id = result.file_id
       IN  IF result.metadata # NULL /\ ~exists
             \* INSERT OR REPLACE INTO file_metadata fails its foreign key
             THEN [d |-> d1, st |-> [st EXCEPT !.errors = @ + 1]]
             ELSE [d |-> IF result.metadata = NULL THEN d1
                         ELSE [d1 EXCEPT !.file_metadata =
                                 {m \in @ : m.file_id # result.file_id} \cup
                                 {[file_id |-> result.file_id, metadata |-> result.metadata]}],
                   st |-> [st EXCEPT !.files_enriched = @ + 1]]

\* ------------------------------------------------------------ the scan task
SetTask(k, t) == task' = [task EXCEPT ![k] = t]

TaskBegin(k) ==
  /\ task[k].pc = "begin"
  /\ LET sources == get_sources(config) IN
     IF sources = <<>>
       THEN /\ scan_state' = [scan_state EXCEPT !.running = FALSE]
            /\ SetTask(k, [task[k] EXCEPT !.pc = "early"])
       ELSE /\ SetTask(k, [task[k] EXCEPT !.pc = "p1_loop", !.sources = sources, !.i = 1])
            /\ UNCHANGED scan_state
  /\ UNCHANGED <<held, call, io, unreached, shares, down, sessions, config, db, cancel, caller, ret, budget,
                 removed, cancelReq>>

\* _is_cancelled() where _scan_all_sources asks it: before each source and
\* before Phase 2
_is_cancelled(ev) == ev

\* "for source in sources" goes on to the next source or ends.
NextSource(t) == IF t.i + 1 > Len(t.sources) THEN "p2_check" ELSE "p1_loop"

\* The head of "for source in sources" and the entry of _phase1_index.
TaskPhase1Enter(k) ==
  LET t == task[k] IN
  /\ t.pc = "p1_loop"
  /\ IF _is_cancelled(cancel)
       THEN /\ SetTask(k, [t EXCEPT !.pc = "p2_check"])
            /\ UNCHANGED <<scan_state, sessions>>
       ELSE LET source == t.sources[t.i]
                label == LabelOf(source)
                st == [scan_state EXCEPT !.current_source = label, !.phase = "indexing"]
                existing == IF t.full_scan THEN EmptyFn ELSE LoadExisting(db, label)
            IN  IF ~CanRegister(source.host)
                  THEN /\ scan_state' = [st EXCEPT !.errors = @ + 1,
                                                   !.error_log = Append(@, source_id(source))]
                       /\ SetTask(k, [t EXCEPT !.i = @ + 1, !.pc = NextSource(t)])
                       /\ UNCHANGED sessions
                  ELSE /\ scan_state' = st
                       /\ sessions' = sessions \cup {source.host}
                       /\ SetTask(k, [t EXCEPT !.pc = "p1_walk", !.existing = existing,
                                               !.walk = <<smb_root(source)>>,
                                               !.seen_paths = {}, !.batch = <<>>,
                                               !.walked = @ \cup {source_id(source)}])
  /\ UNCHANGED <<held, call, io, unreached, shares, down, config, db, cancel, caller, ret, budget, removed, cancelReq>>

TaskWalk(k) ==
  LET t == task[k]
      source == t.sources[t.i]
      dirpath == Head(t.walk)
  IN
  /\ t.pc = "p1_walk"
  /\ IF cancel
       THEN /\ SetTask(k, [t EXCEPT !.pc = "p1_tail", !.walk = <<>>,
                                    !.observed = "phase1"])
            /\ UNCHANGED <<scan_state, db>>
       ELSE IF dirpath \notin DOMAIN shares
       \* smbclient.walk skips a directory it cannot list
       THEN /\ SetTask(k, [t EXCEPT !.walk = Tail(@),
                                    !.pc = IF Tail(t.walk) = <<>> THEN "p1_tail" ELSE "p1_walk"])
            /\ UNCHANGED <<scan_state, db>>
       ELSE \E r \in {IndexDir(t, scan_state, db, shares, source, dirpath)},
               rest \in {dirnames(shares, dirpath) \o Tail(t.walk)} :
                /\ scan_state' = r.st
                /\ db' = r.d
                /\ SetTask(k, [t EXCEPT !.batch = r.batch, !.seen_paths = r.seen_paths,
                                        !.visited = @ \cup r.seen_paths,
                                        !.unstatted = r.unstatted,
                                        !.indexed = r.indexed,
                                        !.walk = rest,
                                        !.pc = IF rest = <<>> THEN "p1_tail" ELSE "p1_walk"])
  /\ UNCHANGED <<held, call, io, unreached, shares, down, sessions, config, cancel, caller, ret, budget, removed, cancelReq>>

\* smbclient.walk raises on a directory (the connection drops, the server
\* times out): smb_fs.walk logs the exception and returns, and the for loop
\* of _phase1_index ends as it does after the last directory.
TaskWalkError(k) ==
  /\ task[k].pc = "p1_walk"
  /\ budget.raises < MaxRaises
  /\ Events < MaxEvents
  /\ budget' = [budget EXCEPT !.raises = @ + 1]
  /\ SetTask(k, [task[k] EXCEPT !.pc = "p1_tail", !.walk = <<>>])
  /\ UNCHANGED <<held, call, io, unreached, shares, down, sessions, config, db, scan_state, cancel,
                 caller, ret, removed, cancelReq>>

\* After the walk: the final flush, _apply_tags_bulk, _remove_stale.
Phase1End(t, d2, ev) ==
  LET label == LabelOf(t.sources[t.i])
  IN  IF t.full_scan /\ ~ev
        THEN [d |-> _remove_stale(d2, label, t.seen_paths),
              removed |-> Cardinality(StalePaths(d2, label, t.seen_paths))]
        ELSE [d |-> d2, removed |-> 0]

Phase1Tail(t, d, ev) ==
  LET label == LabelOf(t.sources[t.i])
      d1 == IF t.batch # <<>> THEN _flush_batch_phase1(d, t.batch) ELSE d
  IN  The({Phase1End(t, d2, ev) : d2 \in {The({_apply_tags_bulk(x, label) : x \in {d1}})}})

TaskPhase1Tail(k) ==
  LET t == task[k] IN
  /\ t.pc = "p1_tail"
  /\ \E r \in {Phase1Tail(t, db, cancel)} :
       /\ db' = r.d
       /\ scan_state' = [scan_state EXCEPT !.files_removed = @ + r.removed]
  /\ SetTask(k, [t EXCEPT !.pc = NextSource(t), !.i = @ + 1, !.batch = <<>>,
                          !.seen_paths = {}, !.existing = EmptyFn])
  /\ UNCHANGED <<held, call, io, unreached, shares, down, sessions, config, cancel, caller, ret, budget, removed, cancelReq>>

TaskPhase2Begin(k) ==
  LET t == task[k]
      to_enrich == ToEnrich(db)
  IN
  /\ t.pc = "p2_check"
  /\ IF _is_cancelled(cancel)
       THEN /\ SetTask(k, [t EXCEPT !.pc = "decide"])
            /\ UNCHANGED scan_state
       ELSE /\ scan_state' = [scan_state EXCEPT !.phase = "enriching",
                                                !.files_to_enrich = Len(to_enrich)]
            /\ SetTask(k, [t EXCEPT !.pc = IF to_enrich = <<>> THEN "decide" ELSE "p2_run",
                                    !.queue = to_enrich])
  /\ UNCHANGED <<held, call, io, unreached, shares, down, sessions, config, db, cancel, caller, ret, budget, removed, cancelReq>>

\* A pool worker takes the next submitted row and runs _enrich_file on it.
TaskWorker(k) ==
  LET t == task[k]
      file_row == Head(t.queue)
  IN
  /\ t.pc = "p2_run"
  /\ t.queue # <<>>
  /\ Cardinality(t.done) < MaxPending
  /\ SetTask(k, [t EXCEPT !.queue = Tail(@),
                          !.done = @ \cup {[row |-> file_row,
                                            result |-> _enrich_file(file_row, cancel, config, shares)]}])
  /\ UNCHANGED <<held, call, io, unreached, shares, down, sessions, config, db, scan_state, cancel, caller, ret, budget,
                 removed, cancelReq>>

\* pool.shutdown(wait=False, cancel_futures=True): the futures no worker has
\* started on are cancelled
shutdown_keeps(queue) == queue

shutdown(queue) == <<>>

\* One turn of "for future in as_completed(futures)".
TaskDrain(k, f) ==
  LET t == task[k] IN
  /\ t.pc = "p2_run"
  /\ f \in t.done
  /\ IF cancel
       THEN /\ SetTask(k, [t EXCEPT !.pc = "decide", !.queue = shutdown(@), !.done = {},
                                    !.observed = "phase2", !.dropped = Len(t.queue)])
            /\ UNCHANGED <<db, scan_state>>
       ELSE LET r == ApplyResult(db, scan_state, f.result)
                left == t.done \ {f}
            IN  /\ db' = r.d
                /\ scan_state' = r.st
                /\ SetTask(k, [t EXCEPT !.done = left,
                                        !.pc = IF left = {} /\ t.queue = <<>> THEN "decide" ELSE "p2_run"])
  /\ UNCHANGED <<held, call, io, unreached, shares, down, sessions, config, cancel, caller, ret, budget, removed, cancelReq>>

\* error_log[-n:]
LastN(log, n) == IF Len(log) <= n THEN log ELSE SubSeq(log, Len(log) - n + 1, Len(log))

\* UPDATE scan_log SET completed_at=?, status=?, <counters> WHERE id=?
FinalLogRow(st, final_status) ==
  [status |-> final_status, completed |-> TRUE, files_scanned |-> st.files_scanned,
   files_added |-> st.files_added, files_updated |-> st.files_updated,
   files_removed |-> st.files_removed, errors |-> st.errors,
   error_log |-> LastN(st.error_log, error_log_tail)]

\* final_status = "cancelled" if _is_cancelled() else "completed", and the
\* UPDATE of the scan_log row.
final_status_completed(ev) == "completed"

final_status(ev) == IF ev THEN "cancelled" ELSE "completed"

TaskFinalize(k) ==
  /\ task[k].pc = "decide"
  /\ db' = [db EXCEPT !.scan_log[k] = FinalLogRow(scan_state, final_status(cancel))]
  /\ SetTask(k, [task[k] EXCEPT !.pc = "finally", !.final_status = final_status(cancel)])
  /\ UNCHANGED <<held, call, io, unreached, shares, down, sessions, config, scan_state, cancel, caller, ret, budget,
                 removed, cancelReq>>

\* An exception no inner handler catches (a locked database, a failed read
\* of the sources file) reaches "except Exception" of _scan_all_sources.
TaskRaise(k) ==
  /\ task[k].pc \in {"p1_loop", "p1_walk", "p1_tail", "p2_check", "p2_run"}
  /\ budget.raises < MaxRaises
  /\ Events < MaxEvents
  /\ budget' = [budget EXCEPT !.raises = @ + 1]
  /\ SetTask(k, [task[k] EXCEPT !.pc = "except", !.walk = <<>>, !.batch = <<>>,
                                !.seen_paths = {}, !.existing = EmptyFn,
                                !.queue = <<>>, !.done = {}])
  /\ UNCHANGED <<held, call, io, unreached, shares, down, sessions, config, db, scan_state, cancel, caller, ret,
                 removed, cancelReq>>

\* UPDATE scan_log SET completed_at=?, status='failed', error_log=? WHERE id=?
FailedLogRow_unwritten(row, message) == row

FailedLogRow(row, message) ==
  [row EXCEPT !.status = "failed", !.completed = TRUE, !.error_log = <<message>>]

TaskExcept(k) ==
  /\ task[k].pc = "except"
  /\ db' = [db EXCEPT !.scan_log[k] = FailedLogRow(@, "exception")]
  /\ SetTask(k, [task[k] EXCEPT !.pc = "finally", !.final_status = "failed"])
  /\ UNCHANGED <<held, call, io, unreached, shares, down, sessions, config, scan_state, cancel, caller, ret, budget,
                 removed, cancelReq>>

\* finally: running = False, phase = "". Also after the return of line 486.
TaskFinally(k) ==
  /\ task[k].pc \in {"finally", "early"}
  /\ scan_state' = [scan_state EXCEPT !.running = FALSE, !.phase = ""]
  /\ SetTask(k, [task[k] EXCEPT !.pc = "done"])
  /\ UNCHANGED <<held, call, io, unreached, shares, down, sessions, config, db, cancel, caller, ret, budget,
                 removed, cancelReq>>

\* ---------------------------------------------------------- specification
\* The steps a started task takes by itself.
TaskStep(k) ==
  \/ TaskBegin(k)
  \/ TaskPhase1Enter(k)
  \/ TaskWalk(k)
  \/ TaskPhase1Tail(k)
  \/ TaskPhase2Begin(k)
  \/ TaskWorker(k)
  \/ \E f \in task[k].done : TaskDrain(k, f)
  \/ TaskFinalize(k)
  \/ TaskExcept(k)
  \/ TaskFinally(k)

Next ==
  \/ \E full \in BOOLEAN : start_scan(full)
  \/ StopScanCheck
  \/ StopScanSet
  \/ \E s \in SourceUniverse : AddSource(s)
  \/ \E s \in SourceUniverse : RemoveSource(source_id(s))
  \/ \E p \in Changing : FsTouch(p)
  \/ \E p \in Changing : FsRemove(p)
  \/ FsEmpty(smb_root(SrcA))
  \/ \E h \in Hosts : HostUp(h)
  \/ \E k \in ScanIds : TaskStep(k)
  \/ \E k \in ScanIds : TaskRaise(k)
  \/ \E k \in ScanIds : TaskWalkError(k)

Spec == Init /\ [][Next]_vars

\* One configured source, on the host that accepts sessions while the other
\* host refuses them, and every started thread scheduled until it exits.
InitOne == Init /\ config = save_config(<<SrcA>>) /\ down = {"nas2"}

FairSpec == InitOne /\ [][Next]_vars /\ \A k \in ScanIds : WF_vars(TaskStep(k))

\* The service in the state in which the behaviour that violates C1 leaves it: the
\* thread of scan 1 found no source (the only one was removed after
\* start_scan and added again since), has cleared running in its early
\* return and has not reached its finally block yet. Events are counted from
\* here.
OverlapInit ==
  /\ shares = InitShares
  /\ down \in {{}, {"nas2"}}
  /\ config = save_config(<<SrcA>>)
  /\ sessions = {"nas1"}
  /\ db = [EmptyDb EXCEPT !.scan_log = <<NewLogRow>>]
  /\ scan_state = [FreshState(FALSE, "indexing") EXCEPT !.scan_id = 1]
  /\ cancel = FALSE
  /\ caller = IdleCaller
  /\ ret = "Added source"
  /\ \E full \in BOOLEAN :
       task = [k \in ScanIds |->
                 IF k = 1 THEN [IdleTask EXCEPT !.pc = "early", !.full_scan = full]
                 ELSE IdleTask]
  /\ budget = [config |-> 0, fs |-> 0, stops |-> 0, raises |-> 0, hosts |-> 0]
  /\ removed = {"media"}
  /\ cancelReq = {}
  /\ io = NoIo
  /\ unreached = {}
  /\ held = NotHeld
  /\ call = NoCall

OverlapSpec == OverlapInit /\ [][Next]_vars

\* ------------------------------------------------- the /remove-source route
\* The polls of the scan state a /remove-source request makes after
\* stop_scan before it goes on (range(20) in the code, 0.1 s apart).
MaxPolls == 2

\* scan_was_running = get_scan_state()["running"]
RouteEnter(sid) ==
  /\ caller.pc = "idle"
  /\ budget.config < MaxConfigOps
  /\ budget' = [budget EXCEPT !.config = @ + 1]
  /\ caller' = [IdleCaller EXCEPT
                  !.pc = IF scan_state.running THEN "route_stop" ELSE "route_remove",
                  !.source_id = sid, !.scan_was_running = scan_state.running]
  /\ UNCHANGED <<held, call, io, unreached, shares, down, sessions, config, db, scan_state, cancel, ret, task, removed, cancelReq>>

\* stop_scan() of the request: its section under _scan_lock
RouteStopCheck ==
  /\ caller.pc = "route_stop"
  /\ caller' = [caller EXCEPT !.pc = IF stop_scan_locked(scan_state)
                                       THEN "route_poll" ELSE "route_stop_set"]
  /\ UNCHANGED <<held, call, io, unreached, shares, down, sessions, config, db, scan_state, cancel, ret, task, budget, removed, cancelReq>>

\* stop_scan() of the request: _cancel_event.set()
RouteStopSet ==
  /\ caller.pc = "route_stop_set"
  /\ cancel' = TRUE
  /\ caller' = [caller EXCEPT !.pc = "route_poll"]
  /\ cancelReq' = IF scan_state.running
                    THEN cancelReq \cup {k \in ScanIds : Active(k) /\ scan_state.scan_id = k}
                    ELSE cancelReq
  /\ UNCHANGED <<held, call, io, unreached, shares, down, sessions, config, db, scan_state, ret, task, budget, removed>>

\* One round of the wait loop: break when running is false, sleep
\* otherwise; the loop ends by itself after its last round.
poll_until_stopped(c, st) ==
  IF c.polls = MaxPolls \/ ~st.running
    THEN [c EXCEPT !.pc = "route_remove"]
    ELSE [c EXCEPT !.polls = @ + 1]

RoutePoll ==
  /\ caller.pc = "route_poll"
  /\ caller' = poll_until_stopped(caller, scan_state)
  /\ UNCHANGED <<held, call, io, unreached, shares, down, sessions, config, db, scan_state, cancel, ret, task, budget, removed, cancelReq>>

\* Step 2 of the request, remove_source(req.source_id), and the decision of
\* step 3.
RouteRemove ==
  LET r == remove_source(config, db, caller.source_id) IN
  /\ caller.pc = "route_remove"
  /\ config' = r.config
  /\ db' = r.db
  /\ removed' = IF r.success THEN removed \cup {r.label} ELSE removed
  /\ ret' = IF r.success THEN "Removed source" ELSE "Source not found"
  /\ caller' = IF r.success /\ get_sources(r.config) # <<>> /\ caller.scan_was_running
                 THEN [caller EXCEPT !.pc = "route_restart"]
                 ELSE IdleCaller
  /\ UNCHANGED <<held, call, io, unreached, shares, down, sessions, scan_state, cancel, task, budget, cancelReq>>

\* Step 3 of the request: start_scan(full_scan=False)
RouteRestart ==
  /\ caller.pc = "route_restart"
  /\ StartScan(FALSE, IdleCaller, TRUE)

RouteNext ==
  \/ \E full \in BOOLEAN : start_scan(full)
  \/ \E s \in SourceUniverse : RouteEnter(source_id(s))
  \/ RouteStopCheck
  \/ RouteStopSet
  \/ RoutePoll
  \/ RouteRemove
  \/ RouteRestart
  \/ \E k \in ScanIds : TaskStep(k)
  \/ \E k \in ScanIds : TaskRaise(k)

\* The service after its start with every host accepting sessions.
RouteInit == Init /\ down = {}

RouteSpec == RouteInit /\ [][RouteNext]_vars

\* ------------------------------------------------ tags of a rewritten file
\* The shares with a.txt empty.
TagShares == [InitShares EXCEPT ![<<"nas1", "media", "a.txt">>] = File(0, 1)]

\* A client of the share writes the file: a new size and a later mtime.
FsWrite(p) ==
  /\ budget.fs < MaxFsChanges
  /\ p \in ShareFiles
  /\ shares' = [shares EXCEPT ![p] = File(5, @.mtime + 2)]
  /\ budget' = [budget EXCEPT !.fs = @ + 1]
  /\ UNCHANGED <<held, call, io, unreached, down, sessions, config, db, scan_state, cancel, caller, ret, task,
                 removed, cancelReq>>

\* The service after its start with one or two sources on these shares.
TagInit ==
  /\ shares = TagShares
  /\ down = {}
  /\ config \in InitConfigs
  /\ sessions = {config[i].host : i \in DOMAIN config}
  /\ db = EmptyDb
  /\ scan_state = FreshState(FALSE, "")
  /\ cancel = FALSE
  /\ caller = IdleCaller
  /\ ret = ""
  /\ task = [k \in ScanIds |-> IdleTask]
  /\ budget = [config |-> 0, fs |-> 0, stops |-> 0, raises |-> 0, hosts |-> 0]
  /\ removed = {}
  /\ cancelReq = {}
  /\ io = NoIo
  /\ unreached = {}
  /\ held = NotHeld
  /\ call = NoCall

TagNext ==
  \/ \E full \in BOOLEAN : start_scan(full)
  \/ \E p \in Changing : FsWrite(p)
  \/ \E k \in ScanIds : TaskStep(k)
  \/ \E k \in ScanIds : TaskRaise(k)

TagSpec == TagInit /\ [][TagNext]_vars

\* ------------------------------------------- two clients of the scanner
\* start_scan called by another client while a stop_scan call is between its
\* section under _scan_lock and _cancel_event.set().
StartScanBeside(full) == caller.pc = "stop_set" /\ StartScan(full, caller, TRUE)

RaceNext ==
  \/ \E full \in BOOLEAN : start_scan(full)
  \/ \E full \in BOOLEAN : StartScanBeside(full)
  \/ StopScanCheck
  \/ StopScanSet
  \/ \E k \in ScanIds : TaskStep(k)
  \/ \E k \in ScanIds : TaskRaise(k)

RaceSpec == InitOne /\ [][RaceNext]_vars

\* --------------------------------------------- the scan state and its readers
\* get_scan_state returns dict(_scan_state): a new dict with the same values.
\* The scalar values are copied; the value of "error_log" is the list object
\* of _scan_state itself. held.shared says that the list of the held dict is
\* the list _scan_state has now, and then scan_state.error_log is its
\* content; otherwise held.d.error_log is.
get_scan_state(st) == [taken |-> TRUE, shared |-> TRUE, d |-> st]

\* What the held dict reads as.
HeldValue ==
  IF held.shared THEN [held.d EXCEPT !.error_log = scan_state.error_log] ELSE held.d

GetScanState ==
  /\ held' = get_scan_state(scan_state)
  /\ UNCHANGED <<call, io, unreached, shares, down, sessions, config, db, scan_state, cancel,
                 caller, ret, task, budget, removed, cancelReq>>

\* state["running"] = v on the held dict
CallerSetsRunning(v) ==
  /\ held.taken
  /\ held.d.running # v
  /\ held' = [held EXCEPT !.d.running = v]
  /\ UNCHANGED <<call, io, unreached, shares, down, sessions, config, db, scan_state, cancel,
                 caller, ret, task, budget, removed, cancelReq>>

\* state["error_log"].append(message) on the held dict
CallerAppends(message) ==
  /\ held.taken
  /\ Len(HeldValue.error_log) < MaxLogLen
  /\ IF held.shared
       THEN /\ scan_state' = [scan_state EXCEPT !.error_log = Append(@, message)]
            /\ UNCHANGED held
       ELSE /\ held' = [held EXCEPT !.d.error_log = Append(@, message)]
            /\ UNCHANGED scan_state
  /\ UNCHANGED <<call, io, unreached, shares, down, sessions, config, db, cancel,
                 caller, ret, task, budget, removed, cancelReq>>

\* The scan thread counts a file, or counts and logs an error, in place.
ScanThreadRecords(failed) ==
  /\ scan_state.running
  /\ scan_state.files_scanned < MaxLogLen
  /\ Len(scan_state.error_log) < MaxLogLen
  /\ scan_state' = IF failed
                     THEN [scan_state EXCEPT !.errors = @ + 1,
                                             !.error_log = Append(@, "a.txt")]
                     ELSE [scan_state EXCEPT !.files_scanned = @ + 1]
  /\ UNCHANGED <<held, call, io, unreached, shares, down, sessions, config, db, cancel,
                 caller, ret, task, budget, removed, cancelReq>>

\* start_scan binds _scan_state to a new dict with a new list; the list of a
\* dict that was handed out earlier stays as it is.
ScanStateRebound ==
  /\ ~scan_state.running
  /\ scan_state.scan_id < MaxScans
  /\ scan_state' = [start_scan_locked(scan_state, cancel).state
                      EXCEPT !.scan_id = scan_state.scan_id + 1]
  /\ held' = IF held.shared
               THEN [held EXCEPT !.shared = FALSE, !.d.error_log = scan_state.error_log]
               ELSE held
  /\ UNCHANGED <<call, io, unreached, shares, down, sessions, config, db, cancel,
                 caller, ret, task, budget, removed, cancelReq>>

\* The scan thread clears running in its finally block.
ScanStateEnds ==
  /\ scan_state.running
  /\ scan_state' = [scan_state EXCEPT !.running = FALSE, !.phase = ""]
  /\ UNCHANGED <<held, call, io, unreached, shares, down, sessions, config, db, cancel,
                 caller, ret, task, budget, removed, cancelReq>>

CallerChanges ==
  \/ \E v \in BOOLEAN : CallerSetsRunning(v)
  \/ \E message \in {"mine"} : CallerAppends(message)

SnapNext ==
  \/ GetScanState
  \/ \E v \in BOOLEAN : CallerSetsRunning(v)
  \/ \E message \in {"mine"} : CallerAppends(message)
  \/ \E failed \in BOOLEAN : ScanThreadRecords(failed)
  \/ ScanStateRebound
  \/ ScanStateEnds

SnapSpec == Init /\ [][SnapNext]_vars

\* ------------------------------------------- functions applied by themselves
\* A source in a subfolder of a share, with a label of its own.
SrcDocs == [host |-> "nas1", share |-> "files", subfolder |-> "docs", label |-> "docs",
            username |-> <<Text("admin")>>, password |-> <<Text("pw")>>]

\* The sources files get_smb_path is asked under: none, and files with one
\* and two sources.
ResolveConfigs ==
  {<<>>, save_config(<<SrcA>>), save_config(<<SrcDocs>>), save_config(<<SrcA, SrcB>>),
   save_config(<<SrcDocs, SrcA>>)}

\* Logical paths after strip("/"): "/" is <<"">>.
LogicalPaths ==
  {<<"">>, <<"media">>, <<"media", "a.txt">>, <<"media", "d", "m.mkv">>,
   <<"docs", "r.pdf">>, <<"Media", "a.txt">>}

\* security.get_smb_path without its two checks
get_smb_path_unchecked(relative_path, file) ==
  relative_to_smb(relative_path, PyList(get_sources(file)))

\* security.get_smb_path
get_smb_path(relative_path, file) ==
  LET sources == get_sources(file)
      smb_path == relative_to_smb(relative_path, PyList(sources))
  IN  IF sources = <<>> THEN Raise("HTTPException 503")
      ELSE IF smb_path.v = <<>> THEN Raise("HTTPException 404")
      ELSE smb_path

GetSmbPath(relative_path, file) ==
  /\ call = NoCall
  /\ call' = [fn |-> "get_smb_path", args |-> <<relative_path, file>>,
              result |-> get_smb_path(relative_path, file)]
  /\ UNCHANGED <<held, io, unreached, shares, down, sessions, config, db, scan_state, cancel,
                 caller, ret, task, budget, removed, cancelReq>>

\* categorizer.OLD_THRESHOLD_DAYS
OLD_THRESHOLD_DAYS == 365 * 3

\* categorizer.SIZE_LARGE_GB in bytes; 10 GiB (SIZE_HUGE_GB) does not fit a
\* 32-bit integer, so no size of the model reaches "huge"
SIZE_LARGE == 1073741824

\* rule 3 above the empty file
SizeTags(size) == IF size >= SIZE_LARGE THEN {"large"} ELSE {}

\* rule 4, with the clock the call reads: modified_at is <<>> for None and
\* <<day>> for a date, now is a day
AgeTags(modified_at, now) ==
  IF modified_at # <<>> /\ now - modified_at[1] > OLD_THRESHOLD_DAYS THEN {"old"} ELSE {}

\* rule 5: the keywords in the lower-cased name
NameTags(filename) ==
  CASE filename = "old.bak" -> {"backup"}
    [] filename = ".cache" -> {"hidden", "temporary"}
    [] OTHER -> {}

\* The tags of the model in the order sorted() puts strings.
TagOrder ==
  <<"audio", "backup", "document", "empty", "hidden", "image", "large", "media",
    "old", "photo", "temporary", "text", "video">>

\* sorted(tags) of a set
sorted(tags) == SelectSeq(TagOrder, LAMBDA tag : tag \in tags)

\* categorizer.categorize_file called when the clock reads now
categorize_file_at(filename, mime_type, size, modified_at, now) ==
  sorted(categorize_file(filename, mime_type, size, modified_at) \cup SizeTags(size)
         \cup AgeTags(modified_at, now) \cup NameTags(filename))

\* Two calls with the same arguments, the second not before the first.
CategorizeFile(filename, mime_type, size, modified_at, now1, now2) ==
  /\ call = NoCall
  /\ now1 <= now2
  /\ call' = [fn |-> "categorize_file",
              args |-> <<filename, mime_type, size, modified_at, now1, now2>>,
              result |-> <<categorize_file_at(filename, mime_type, size, modified_at, now1),
                           categorize_file_at(filename, mime_type, size, modified_at, now2)>>]
  /\ UNCHANGED <<held, io, unreached, shares, down, sessions, config, db, scan_state, cancel,
                 caller, ret, task, budget, removed, cancelReq>>

\* Bytes are the codes of "0" and "1", so that a digit of the size and a
\* byte of the content can be the same value.
Bytes == {48, 49}
Contents == UNION {[1..n -> Bytes] : n \in 0..MaxFileLen}
Min(a, b) == IF a <= b THEN a ELSE b
Max(a, b) == IF a >= b THEN a ELSE b

\* str(file_size).encode()
RECURSIVE Decimal(_)
Decimal(n) == IF n < 10 THEN <<48 + n>> ELSE Decimal(n \div 10) \o <<48 + (n % 10)>>

\* What _compute_hash feeds the hasher: the size, f.read(sample_size), and
\* after f.seek(-sample_size, 2) another f.read(sample_size) when
\* file_size > sample_size * 2. The digest is taken as one-to-one.
HashInput(content, file_size, sample_size) ==
  LET head == SubSeq(content, 1, Min(sample_size, Len(content)))
      tail == IF file_size > sample_size * 2
                THEN SubSeq(content, Max(Len(content) - sample_size, 0) + 1, Len(content))
                ELSE <<>>
  IN  Decimal(file_size) \o head \o tail

\* _compute_hash on two files, with the size the catalog row of each gives
ComputeHash(c1, c2, sample_size) ==
  /\ call = NoCall
  /\ call' = [fn |-> "_compute_hash", args |-> <<c1, c2, sample_size>>,
              result |-> <<HashInput(c1, Len(c1), sample_size),
                           HashInput(c2, Len(c2), sample_size)>>]
  /\ UNCHANGED <<held, io, unreached, shares, down, sessions, config, db, scan_state, cancel,
                 caller, ret, task, budget, removed, cancelReq>>

\* ------------------------------------------ path conversion on the text
\* Strings as sequences of characters, with the str methods the two
\* conversions use.
BS == "\\"
SL == "/"

\* str.replace(a, b) for single characters
replace(str, a, b) == [i \in DOMAIN str |-> IF str[i] = a THEN b ELSE str[i]]

RECURSIVE rstrip(_, _)
rstrip(str, c) ==
  IF str # <<>> /\ str[Len(str)] = c THEN rstrip(SubSeq(str, 1, Len(str) - 1), c) ELSE str

RECURSIVE lstrip(_, _)
lstrip(str, c) == IF str # <<>> /\ str[1] = c THEN lstrip(Tail(str), c) ELSE str

strip(str, c) == lstrip(rstrip(str, c), c)

startswith(str, prefix) ==
  Len(prefix) <= Len(str) /\ SubSeq(str, 1, Len(prefix)) = prefix

\* str.split(c, 1): the text before the first c and the text after it, or
\* the text alone
split_once(str, c) ==
  LET at == {i \in DOMAIN str : str[i] = c}
  IN  IF at = {} THEN <<str>>
      ELSE LET i == CHOOSE x \in at : \A y \in at : x <= y
           IN  <<SubSeq(str, 1, i - 1), SubSeq(str, i + 1, Len(str))>>

\* str.split(c)[-1]
after_last(str, c) ==
  LET at == {i \in DOMAIN str : str[i] = c}
  IN  IF at = {} THEN str
      ELSE SubSeq(str, (CHOOSE x \in at : \A y \in at : x >= y) + 1, Len(str))

\* SMBSource.smb_root
smb_root_text(source) ==
  LET base == <<BS, BS>> \o source.host \o <<BS>> \o source.share
  IN  IF source.subfolder # <<>> /\ source.subfolder # <<SL>>
        THEN base \o <<BS>> \o strip(replace(source.subfolder, SL, BS), BS)
        ELSE base

label_or_share(source) == IF source.label # <<>> THEN source.label ELSE source.share

smb_to_relative_text(smb_path, source) ==
  LET root == rstrip(smb_root_text(source), BS)
      norm_path == rstrip(replace(smb_path, SL, BS), BS)
      norm_root == replace(root, SL, BS)
  IN  IF norm_path = norm_root
        THEN <<SL>> \o label_or_share(source)
      ELSE IF startswith(norm_path, norm_root \o <<BS>>)
        THEN <<SL>> \o label_or_share(source) \o <<SL>> \o
             replace(SubSeq(norm_path, Len(norm_root) + 2, Len(norm_path)), BS, SL)
      ELSE <<SL>> \o after_last(replace(smb_path, BS, SL), SL)

\* None is the empty text: no SMB path is empty
RECURSIVE relative_to_smb_text(_, _)
relative_to_smb_text(relative_path, sources) ==
  LET parts == split_once(strip(relative_path, SL), SL)
      source_label == parts[1]
      remaining == IF Len(parts) > 1 THEN parts[2] ELSE <<>>
  IN  IF sources = <<>> THEN <<>>
      ELSE IF label_or_share(Head(sources)) = source_label
        THEN IF remaining # <<>>
               THEN smb_root_text(Head(sources)) \o <<BS>> \o replace(remaining, SL, BS)
               ELSE smb_root_text(Head(sources))
      ELSE relative_to_smb_text(relative_path, Tail(sources))

\* The sources of the round trip: one host and share, the subfolder and the
\* label as a client of add_source spells them.
Subfolders == {<<SL>>, <<>>, <<"d">>, <<SL, "d">>, <<"d", SL>>, <<"d", BS, "e">>, <<BS>>}
TextSources ==
  {[host |-> <<"h">>, share |-> <<"s">>, subfolder |-> sub, label |-> l] :
     sub \in Subfolders, l \in {<<>>, <<"m">>}}

\* What follows the root in an SMB path equal to it or below it.
Suffixes ==
  {<<>>, <<BS>>, <<BS, "f">>, <<SL, "f">>, <<BS, "f", BS, "g">>, <<BS, "f", SL, "g">>,
   <<BS, "f", BS>>}

\* smb_to_relative, and relative_to_smb on its result
PathRoundTrip(source, suffix) ==
  /\ call = NoCall
  /\ \E smb_path \in {rstrip(smb_root_text(source), BS) \o suffix} :
     \E rel \in {smb_to_relative_text(smb_path, source)} :
       call' = [fn |-> "smb_to_relative", args |-> <<smb_path, source>>,
                result |-> <<rel, relative_to_smb_text(rel, <<source>>)>>]
  /\ UNCHANGED <<held, io, unreached, shares, down, sessions, config, db, scan_state, cancel,
                 caller, ret, task, budget, removed, cancelReq>>

\* ------------------------------------------------------------ temp files
\* The temp directory and the registry of one worker: the files on disk,
\* _temp_files, and whether the descriptor mkstemp returned is open.
NewTemp == "tmp1"

\* download_to_temp(smb_path). fault names the step that raises: "open"
\* (smbclient.open_file), "copy" (copyfileobj, after os.fdopen took the
\* descriptor, which the with block closes on the way out) or none of the
\* two. temp_path is <<>> where the caller's variable stays None. In the except block os.get_inheritable(fd) raises OSError on a closed
\* descriptor, unless another thread has opened a file under the same number
\* since (reused): that descriptor is then closed and the block goes on.
download_to_temp(st, fault, reused) ==
  LET made == [st EXCEPT !.files = @ \cup {NewTemp}] IN
  CASE fault = "open" ->
         [st |-> [made EXCEPT !.files = @ \ {NewTemp}], raised |-> TRUE, temp_path |-> <<>>]
    [] fault = "copy" ->
         IF reused
           THEN [st |-> [made EXCEPT !.files = @ \ {NewTemp}], raised |-> TRUE, temp_path |-> <<>>]
           ELSE [st |-> made, raised |-> TRUE, temp_path |-> <<>>]
    [] OTHER ->
         [st |-> [made EXCEPT !.registry = @ \cup {NewTemp}], raised |-> FALSE,
          temp_path |-> <<NewTemp>>]

\* cleanup_temp(temp_path)
cleanup_temp(st, temp_path) ==
  [st EXCEPT !.files = @ \ {temp_path}, !.registry = @ \ {temp_path}]

\* cleanup_all_temps()
cleanup_all_temps(st) == [st EXCEPT !.files = @ \ st.registry, !.registry = {}]

\* temp_path = None; try: download_to_temp, extract; except: return None;
\* finally: if temp_path: cleanup_temp(temp_path). The extractor raises when
\* fault is "extract".
extract_with_temp(st, fault, reused) ==
  LET r == download_to_temp(st, fault, reused)
  IN  IF r.temp_path # <<>> THEN cleanup_temp(r.st, r.temp_path[1]) ELSE r.st

TempFaults == {"none", "open", "copy", "extract"}

\* One call of _extract_text_smb or _extract_metadata_smb for a file that is
\* downloaded, with the temp files earlier downloads of other callers have
\* registered, and cleanup_all_temps after it.
ExtractWithTemp(fn, others, fault, reused) ==
  /\ call = NoCall
  /\ \E st \in {extract_with_temp([files |-> others, registry |-> others], fault, reused)} :
       call' = [fn |-> fn, args |-> <<others, fault, reused>>,
                result |-> <<st, cleanup_all_temps(st)>>]
  /\ UNCHANGED <<held, io, unreached, shares, down, sessions, config, db, scan_state, cancel,
                 caller, ret, task, budget, removed, cancelReq>>

FnNext ==
  \/ \E relative_path \in LogicalPaths, file \in ResolveConfigs :
       GetSmbPath(relative_path, file)
  \/ \E filename \in {"a.txt", "m.mkv", "old.bak", ".cache"},
        mime_type \in {NULL, "text/plain", "video/x-matroska"},
        size \in {0, 5, SIZE_LARGE}, modified_at \in {<<>>, <<0>>}, now1 \in {1000, 2000},
        now2 \in {1000, 2000} :
       CategorizeFile(filename, mime_type, size, modified_at, now1, now2)
  \/ \E c1 \in Contents, c2 \in Contents, sample_size \in 1..MaxSample :
       ComputeHash(c1, c2, sample_size)
  \/ \E source \in TextSources, suffix \in Suffixes : PathRoundTrip(source, suffix)
  \/ \E fn \in {"_extract_text_smb", "_extract_metadata_smb"}, others \in SUBSET {"tmp0"},
        fault \in TempFaults, reused \in BOOLEAN :
       ExtractWithTemp(fn, others, fault, reused)

\* Each function is applied once, to every input of the sets above.
FnSpec == Init /\ [][FnNext]_vars

\* ---------------------------------------------- the sources file by itself
\* save_config and load_config applied to configs whose credentials are
\* empty, ordinary, text that begins with "enc:", and a copy of a stored
\* value; the service starts on a file an older release wrote in plaintext.
CredStrings ==
  {<<>>, <<Text("admin")>>, <<_ENCRYPTED_PREFIX, Text("pw")>>, encrypt(<<Text("pw")>>)}

GivenConfigs ==
  {<<[SrcA EXCEPT !.username = u, !.password = pw]>> : u \in CredStrings, pw \in CredStrings}
  \cup {<<[SrcA EXCEPT !.username = u, !.password = pw], SrcB>> :
          u \in CredStrings, pw \in CredStrings}

CredInit ==
  /\ shares = InitShares
  /\ down = {}
  /\ config \in GivenConfigs
  /\ sessions = {}
  /\ db = EmptyDb
  /\ scan_state = FreshState(FALSE, "")
  /\ cancel = FALSE
  /\ caller = IdleCaller
  /\ ret = ""
  /\ task = [k \in ScanIds |-> IdleTask]
  /\ budget = [config |-> 0, fs |-> 0, stops |-> 0, raises |-> 0, hosts |-> 0]
  /\ removed = {}
  /\ cancelReq = {}
  /\ io = NoIo
  /\ unreached = {}
  /\ held = NotHeld
  /\ call = NoCall

SaveConfig(cfg) ==
  /\ config' = save_config(cfg)
  /\ io' = [NoIo EXCEPT !.op = "save", !.saved = TRUE, !.given = cfg]
  /\ UNCHANGED <<shares, down, sessions, db, scan_state, cancel, caller, ret, task,
                 budget, removed, cancelReq, unreached, held, call>>

LoadConfig ==
  /\ \E r \in {load_config(config)} :
       /\ config' = r.file
       /\ io' = [io EXCEPT !.op = "load", !.result = [kind |-> r.kind, v |-> r.v]]
  /\ UNCHANGED <<shares, down, sessions, db, scan_state, cancel, caller, ret, task,
                 budget, removed, cancelReq, unreached, held, call>>

CredNext ==
  \/ \E cfg \in GivenConfigs : SaveConfig(cfg)
  \/ LoadConfig

CredSpec == CredInit /\ [][CredNext]_vars

\* ------------------------------------------------------------ properties
Terminal == {"completed", "cancelled", "failed"}
PhasePcs == {"p1_loop", "p1_walk", "p1_tail", "p2_check", "p2_run", "decide"}

\* The SMB path a logical path resolves to is on its share.
Readable(p) ==
  LET sp == relative_to_smb(p, PyList(get_sources(config)))
  IN  sp.v # <<>> /\ sp.v \in DOMAIN shares

UnderLabel(p, label) == Like(p, label) \/ p = <<label>>

\* C1: at any time at most one scan task is between its start and its exit.
C1_AtMostOneTask == Cardinality({k \in ScanIds : Active(k)}) <= 1

\* C2: a start_scan that finds running == true leaves the scan state, the
\* cancel flag, the scan_log table and the set of tasks as they were.
C2_BusyStartChangesNothing ==
  [][(scan_state.running /\ \E full \in BOOLEAN : start_scan(full))
       => UNCHANGED <<scan_state, cancel, db, task>>]_vars

C2_BusyReturned ==
  /\ ret = "Scan already in progress"
  /\ scan_state.running /\ cancel
  /\ \E k \in ScanIds : Active(k) /\ db.scan_log[k].status = "running"

C4_RemovedLabelStaysPurged ==
  \A label \in removed :
    label \notin ConfiguredLabels(config)
      => \A p \in DOMAIN db.files : ~UnderLabel(p, label)

\* C5: the scan_log row of a task that has exited has a terminal status and
\* completed_at, and right after the task's last write to the row, while
\* running is still true, the row holds the counters of the scan state.
C5_LogRowFinalized ==
  \A k \in ScanIds :
    /\ task[k].pc = "done"
         => db.scan_log[k].status \in Terminal /\ db.scan_log[k].completed
    /\ (task[k].pc = "finally" /\ scan_state.scan_id = k)
         => /\ db.scan_log[k].status \in Terminal
            /\ db.scan_log[k].files_scanned = scan_state.files_scanned
            /\ db.scan_log[k].files_added = scan_state.files_added
            /\ db.scan_log[k].errors = scan_state.errors

\* C6: when a scan has run Phase 2 to its end without a cancel, every file
\* row of a configured source whose file is readable has a file_hash.
C6_HashedAfterPhase2 ==
  \A k \in ScanIds :
    (task[k].pc = "finally" /\ task[k].final_status = "completed")
      => \A p \in DOMAIN db.files :
           (~db.files[p].is_directory /\ Readable(p)) => db.files[p].file_hash # NULL

\* C7: when a full scan ends 'completed', every row below the label of a
\* source it walked has a path its walk visited, and no row is below the
\* label of a source whose share was empty throughout the scan.
C7_FullScanKeepsOnlyVisited ==
  \A k \in ScanIds :
    LET t == task[k]
        walked == {i \in DOMAIN t.sources : source_id(t.sources[i]) \in t.walked}
        Emptied(s) == ~\E q \in DOMAIN shares : q # smb_root(s) /\ IsPrefix(smb_root(s), q)
    IN  (t.pc = "finally" /\ t.final_status = "completed" /\ t.full_scan)
          => \A i \in walked :
               /\ \A p \in DOMAIN db.files :
                    Like(p, LabelOf(t.sources[i])) => p \in t.visited
               /\ (t.fs0 = budget.fs /\ Emptied(t.sources[i]))
                    => \A p \in DOMAIN db.files : ~Like(p, LabelOf(t.sources[i]))

\* C8: a second, incremental scan that follows a completed first scan with
\* no change of the shares or of the sources in between ends with
\* files_added = 0 and files_updated = 0, and every file row has the
\* file_hash it had when the second scan started.
C8_RescanCountsNothing ==
  ( /\ task[1].pc = "done" /\ task[1].final_status = "completed"
    /\ task[2].pc = "finally" /\ task[2].final_status = "completed"
    /\ ~task[2].full_scan
    /\ task[1].fs0 = budget.fs /\ task[1].cfg0 = budget.config )
  => /\ db.scan_log[2].files_added = 0
     /\ db.scan_log[2].files_updated = 0
     /\ \A p \in DOMAIN task[2].hash0 :
          p \in DOMAIN db.files /\ db.files[p].file_hash = task[2].hash0[p]

\* C9: the FTS shadow holds exactly one entry per file row, with the row's
\* id as rowid and its current name, full_text and path.
C9_FtsMatchesFiles ==
  db.files_fts = {FtsEntry(db.files[p]) : p \in DOMAIN db.files}

\* C10: a remove_source deletes no row, tag or metadata at or below the
\* label of a source that stays configured, and keeps every other entry.
C10_RemoveKeepsOthers ==
  [][Len(config') < Len(config)
       => /\ \A i \in DOMAIN config' : \E j \in DOMAIN config : config[j] = config'[i]
          /\ \A p \in DOMAIN db.files :
               (\E i \in DOMAIN config' : UnderLabel(p, LabelOf(config'[i])))
                 => /\ p \in DOMAIN db'.files
                    /\ db'.files[p] = db.files[p]
                    /\ \A x \in db.file_tags : x.file_id = db.files[p].id => x \in db'.file_tags
                    /\ \A x \in db.file_metadata :
                         x.file_id = db.files[p].id => x \in db'.file_metadata]_vars

\* The stored entry with the source_id of s, if any.
Configured(s) == \E i \in DOMAIN config : source_id(config[i]) = source_id(s)

\* C11: add_source with the source_id of a configured source returns the
\* failure "Source already exists", leaves the sources file as it was and
\* registers no session.
C11_DuplicateAddPersistsNothing ==
  [][\A s \in SourceUniverse :
       (Configured(s) /\ AddSource(s))
         => (ret' = "Source already exists" /\ UNCHANGED <<config, sessions>>)]_vars

\* A duplicate was refused while no configured host had a session and every
\* one of them would have accepted one.
C11_DuplicateRefused ==
  /\ ret = "Source already exists"
  /\ config # <<>>
  /\ \A i \in DOMAIN config : config[i].host \notin sessions /\ config[i].host \notin down

\* C12: remove_source with a source_id of no configured source returns the
\* failure "Source not found" and leaves the sources file and the catalog as
\* they were.
C12_UnknownRemoveChangesNothing ==
  [][\A s \in SourceUniverse :
       (~Configured(s) /\ RemoveSource(source_id(s)))
         => (ret' = "Source not found" /\ UNCHANGED <<config, db>>)]_vars

\* An unknown source was refused while the catalog held rows.
C12_UnknownRefused ==
  /\ ret = "Source not found"
  /\ config # <<>>
  /\ DOMAIN db.files # {}

\* C13: add_source writes the new source to the sources file before it
\* registers the session: when the registration fails it returns "Connection
\* failed", registers nothing, and get_sources returns the source as it was
\* given; and a scan that comes to a source whose host has no session asks
\* for one, gets it when the host accepts, and walks the source.
C13_FailedAddStaysStored ==
  [][/\ \A s \in SourceUniverse :
          (~Configured(s) /\ ~CanRegister(s.host) /\ AddSource(s))
            => /\ ret' = "Connection failed"
               /\ sessions' = sessions
               /\ get_sources(config') = Append(get_sources(config), s)
     /\ \A k \in ScanIds :
          (task[k].pc = "p1_loop" /\ ~cancel /\ TaskPhase1Enter(k))
            => LET host == task[k].sources[task[k].i].host
               IN  IF host \notin sessions /\ host \in down
                     THEN sessions' = sessions /\ task'[k].pc # "p1_walk"
                     ELSE host \in sessions' /\ task'[k].pc = "p1_walk"]_vars

\* A source whose add_source returned "Connection failed" was registered
\* and walked by a later scan.
C13_RetriedByScan ==
  \E k \in ScanIds : \E i \in DOMAIN config :
    /\ source_id(config[i]) \in unreached
    /\ source_id(config[i]) \in task[k].walked
    /\ config[i].host \in sessions

\* The value is "enc:" followed by a token: what encrypt returns.
Ciphertext(value) == Len(value) = 2 /\ Head(value) = _ENCRYPTED_PREFIX /\ value[2].kind = "token"

\* C14: after a save_config, and after a load_config that returned a config,
\* every non-empty username and password in the sources file is ciphertext.
C14_NoPlaintextOnDisk ==
  (io.op = "save" \/ (io.op = "load" /\ io.result.kind = "value"))
    => \A i \in DOMAIN config :
         /\ config[i].username # <<>> => Ciphertext(config[i].username)
         /\ config[i].password # <<>> => Ciphertext(config[i].password)

\* C15: load_config after save_config returns, for every entry, the username
\* and the password save_config was given.
C15_LoadReturnsWhatWasSaved ==
  (io.op = "load" /\ io.saved)
    => /\ io.result.kind = "value"
       /\ Len(io.result.v) = Len(io.given)
       /\ \A i \in DOMAIN io.given :
            /\ io.result.v[i].username = io.given[i].username
            /\ io.result.v[i].password = io.given[i].password

\* C16: stop_scan sets the cancel flag if and only if running was true when
\* it looked under the lock. With running false it returns "No scan running"
\* and does not touch the flag; with running true it goes on to set the flag
\* and returns "Scan cancel signal sent"; nothing else ever sets the flag.
C16_StopSetsFlagIffRunning ==
  [][/\ (~scan_state.running /\ StopScanCheck)
          => (ret' = "No scan running" /\ cancel' = cancel /\ caller' = IdleCaller)
     /\ (scan_state.running /\ StopScanCheck)
          => (caller'.pc = "stop_set" /\ cancel' = cancel)
     /\ StopScanSet => (cancel' /\ ret' = "Scan cancel signal sent")
     /\ (~cancel /\ cancel') => caller.pc = "stop_set"]_vars

\* stop_scan returned "No scan running" after a scan had finished, and the
\* flag is clear.
C16_IdleStop ==
  /\ ret = "No scan running"
  /\ ~cancel
  /\ ~scan_state.running
  /\ \E k \in ScanIds : task[k].pc = "done"

\* C17: an exception that reaches "except Exception" of the scan task is
\* followed by the UPDATE that sets the task's scan_log row to 'failed' with
\* the exception message and completed_at; the row stays so, and the task's
\* exit through finally leaves running false.
C17_ExceptionEndsFailed ==
  /\ [](\A k \in ScanIds :
          task[k].final_status = "failed"
            => /\ db.scan_log[k].status = "failed"
               /\ db.scan_log[k].completed
               /\ db.scan_log[k].error_log = <<"exception">>)
  /\ [][\A k \in ScanIds :
          /\ (task[k].pc = "except" /\ task'[k] # task[k])
               => (task'[k].pc = "finally" /\ task'[k].final_status = "failed")
          /\ (task[k].pc = "finally" /\ task'[k] # task[k])
               => (task'[k].pc = "done" /\ ~scan_state'.running)]_vars

\* A scan that had indexed entries ended 'failed', and running is false.
C17_FailedScan ==
  \E k \in ScanIds :
    /\ task[k].pc = "done"
    /\ task[k].final_status = "failed"
    /\ task[k].visited # {}
    /\ db.scan_log[k].status = "failed"
    /\ ~scan_state.running

\* C18: when register_source fails at the entry of a source's Phase 1, that
\* step adds one to errors and one message naming the source to the error
\* log, leaves the catalog and the sessions as they were, and the scan goes
\* on with the next source, or with Phase 2 after the last one.
C18_UnregisteredSourceSkipped ==
  [][\A k \in ScanIds :
       LET t == task[k]
           source == t.sources[t.i]
       IN  (/\ t.pc = "p1_loop" /\ ~cancel
            /\ source.host \notin sessions /\ source.host \in down
            /\ TaskPhase1Enter(k))
             => /\ scan_state'.errors = scan_state.errors + 1
                /\ scan_state'.error_log = Append(scan_state.error_log, source_id(source))
                /\ UNCHANGED <<db, sessions>>
                /\ task'[k].i = t.i + 1
                /\ task'[k].walked = t.walked
                /\ task'[k].pc = IF t.i < Len(t.sources) THEN "p1_loop" ELSE "p2_check"]_vars

\* The first source of a scan could not be registered; the scan recorded the
\* one error and then indexed the second source.
C18_SkippedThenIndexed ==
  \E k \in ScanIds :
    /\ Len(task[k].sources) = 2
    /\ scan_state.scan_id = k
    /\ scan_state.errors = 1
    /\ scan_state.error_log = <<source_id(task[k].sources[1])>>
    /\ task[k].walked = {source_id(task[k].sources[2])}
    /\ task[k].pc = "finally"
    /\ DOMAIN db.files # {}

\* C19: every file of the running scan whose stat failed is counted in
\* errors, and a scan ends 'failed' only after an unexpected exception, never
\* because of such a file.
C19_FileFailuresCounted ==
  \A k \in ScanIds :
    /\ (Active(k) /\ scan_state.scan_id = k)
         => scan_state.errors >= Cardinality(task[k].unstatted)
    /\ task[k].final_status = "failed" => budget.raises > 0

\* C20: the error_log of the scan state, which get_scan_state returns as it
\* is, never holds more messages than the tail the scan_log row keeps.
C20_ErrorLogBounded == Len(scan_state.error_log) <= error_log_tail

\* The ids of the rows of files
FileIds(d) == {d.files[p].id : p \in DOMAIN d.files}

\* C21: every row of file_tags and every row of file_metadata references a
\* row of files, after any sequence of scans and source removals; deleting
\* or replacing a row of files leaves no tag or metadata row behind.
C21_NoOrphanRows ==
  /\ \A t \in db.file_tags : t.file_id \in FileIds(db)
  /\ \A m \in db.file_metadata : m.file_id \in FileIds(db)

\* C21 witness: a second scan has replaced a row that the first scan had
\* tagged, and the catalog holds tags
C21_TaggedRowReplaced ==
  /\ Len(db.scan_log) = 2
  /\ db.scan_log[1].status = "completed"
  /\ db.scan_log[2].status = "completed"
  /\ db.scan_log[2].files_updated > 0
  /\ db.file_tags # {}

\* C22: at the end of every scan, the parent_path of every row of files that
\* is not the root of a source is the path of a row with is_directory = 1.
C22_ParentIsDirectoryRow ==
  \A k \in ScanIds :
    (task[k].pc = "finally" /\ task[k].final_status \in Terminal)
      => \A p \in DOMAIN db.files :
           Len(p) > 1
             => /\ db.files[p].parent_path \in DOMAIN db.files
                /\ db.files[db.files[p].parent_path].is_directory

\* C23: get_scan_state returns a snapshot copy: no change a caller makes to
\* the value it was given, its error_log included, changes the scan state,
\* which is what a later get_scan_state returns.
C23_CallerCannotChangeState ==
  [][CallerChanges => scan_state' = scan_state]_vars

\* C24: resolving a logical path signals 'no sources' (503) when no source
\* is configured, signals 'not found' (404) when no configured source has a
\* label equal to the first path component, and otherwise returns the SMB
\* path under the root of a source with that label.
C24_ResolveSignalsOrReturns ==
  call.fn = "get_smb_path" =>
    LET relative_path == call.args[1]
        sources == get_sources(call.args[2])
        matching == {i \in DOMAIN sources : LabelOf(sources[i]) = relative_path[1]}
    IN  /\ sources = <<>> => call.result = Raise("HTTPException 503")
        /\ (sources # <<>> /\ matching = {}) => call.result = Raise("HTTPException 404")
        /\ matching # {}
             => \E i \in matching :
                  call.result = Value(smb_root(sources[i]) \o Tail_(relative_path, 1))

\* C24 witness: a path below the second of two sources was resolved into the
\* subfolder that source is rooted at
C24_ResolvedUnderSecondSource ==
  /\ call.fn = "get_smb_path"
  /\ call.args = <<<<"media", "d", "m.mkv">>, save_config(<<SrcDocs, SrcA>>)>>
  /\ call.result = Value(<<"nas1", "media", "d", "m.mkv">>)

\* C25: categorize_file is deterministic: two calls with the same filename,
\* mime_type, size and modified_at return the same tag list, whenever they
\* are made, and the list is sorted and has no duplicates.
C25_SameTagsWhenever ==
  call.fn = "categorize_file" =>
    /\ call.result[1] = call.result[2]
    /\ \A r \in {call.result[1], call.result[2]} :
         \A i, j \in DOMAIN r :
           i < j => \E a, b \in DOMAIN TagOrder : a < b /\ TagOrder[a] = r[i] /\ TagOrder[b] = r[j]

\* C26: the input of the fingerprint hash consists of decimal(s), the bytes
\* [0, min(s,N)) and the bytes [max(0, s-N), s): two files of the same size
\* that differ in a byte of these two ranges have different hash inputs, and
\* two files of different size have different hash inputs.
C26_HashInputCoversHeadAndTail ==
  call.fn = "_compute_hash" =>
    LET c1 == call.args[1]
        c2 == call.args[2]
        N == call.args[3]
        s == Len(c1)
        sampled == {i \in 1..s : i <= Min(s, N) \/ i > Max(0, s - N)}
    IN  /\ (Len(c2) = s /\ \E i \in sampled : c1[i] # c2[i])
             => call.result[1] # call.result[2]
        /\ Len(c2) # s => call.result[1] # call.result[2]

\* C27: within one scan the phases run in the order indexing, enriching,
\* end: Phase 2 starts only after Phase 1 has finished for every source, the
\* phase never goes back from enriching to indexing, and the scan ends in
\* exactly one of completed, cancelled or failed.
C27_PhasesInOrder ==
  /\ [](\A k \in ScanIds :
          /\ task[k].pc = "p2_run" => task[k].i > Len(task[k].sources)
          /\ task[k].pc = "done" => db.scan_log[k].status \in Terminal)
  /\ [][\A k \in ScanIds :
          /\ task[k].pc \in {"p2_check", "p2_run", "decide", "except", "finally", "done"}
               => task'[k].pc \notin {"begin", "p1_loop", "p1_walk", "p1_tail"}
          /\ (scan_state.scan_id = k /\ scan_state.phase = "enriching"
                /\ scan_state'.phase = "indexing")
               => scan_state'.scan_id # k]_vars

\* C28: once Phase 1 has observed the cancel flag at a directory boundary,
\* no further directory of the current source or of a remaining source is
\* walked in that scan, and Phase 2 is not started.
C28_NoWalkAfterCancelSeen ==
  [][\A k \in ScanIds :
       task[k].observed = "phase1"
         => /\ task'[k].visited = task[k].visited
            /\ task'[k].walked = task[k].walked
            /\ task'[k].pc \notin {"p1_walk", "p2_run"}
            /\ (task[k].pc = "p2_check" /\ task'[k].pc # "p2_check")
                 => scan_state'.phase # "enriching"]_vars

\* C29: once the Phase 2 drain loop has observed the cancel flag, no
\* enrichment task that has not yet started is run, and no further result
\* is written to the catalog by that scan: file_hash, full_text,
\* file_metadata and files_enriched do not change again in it.
C29_NoEnrichmentAfterCancelSeen ==
  /\ [](\A k \in ScanIds :
          task[k].observed = "phase2" => task[k].queue = <<>> /\ task[k].pc # "p2_run")
  /\ [][\A k \in ScanIds :
          (task[k].observed = "phase2" /\ task'[k] # task[k])
            => /\ task'[k].done = {}
               /\ db'.files = db.files
               /\ db'.file_metadata = db.file_metadata
               /\ scan_state'.files_enriched = scan_state.files_enriched]_vars

\* C29 witness: the drain loop saw the flag while a submitted row was still
\* waiting for a worker, and the scan has ended 'cancelled'
C29_CancelledWithRowsWaiting ==
  \E k \in ScanIds :
    /\ task[k].observed = "phase2"
    /\ task[k].dropped > 0
    /\ task[k].pc = "done"
    /\ db.scan_log[k].status = "cancelled"

\* C30: a full scan deletes a row of files only when its file or directory
\* is no longer on the share of the source being scanned: a row whose file
\* still exists there is never removed, whether the walk was complete, was
\* ended early by a transport error, or was cancelled.
C30_FullScanDeletesOnlyGoneFiles ==
  [][\A k \in ScanIds :
       (TaskPhase1Tail(k) /\ task[k].full_scan)
         => \A p \in DOMAIN db.files \ DOMAIN db'.files :
              smb_root(task[k].sources[task[k].i]) \o Tail_(p, 1) \notin DOMAIN shares]_vars

\* C31: at the end of Phase 1, files_added counts exactly the indexed files
\* whose path had no row before the scan, and files_updated counts exactly
\* the re-indexed files whose path already had one, in incremental scans and
\* in full scans.
C31_AddedAndUpdatedCounts ==
  \A k \in ScanIds :
    (task[k].pc = "p2_check" /\ scan_state.scan_id = k)
      => /\ scan_state.files_added =
              Cardinality({f \in task[k].indexed : f.rel \notin DOMAIN task[k].hash0})
         /\ scan_state.files_updated =
              Cardinality({f \in task[k].indexed : f.rel \in DOMAIN task[k].hash0})

\* C32: a /remove-source request that found a scan running rewrites the
\* sources file and purges the catalog only when running is false, and its
\* restart of the scan for the remaining sources is not refused.
C32_PurgesAfterScanStopped ==
  [][/\ (caller.pc = "route_remove" /\ caller.scan_was_running /\ config' # config)
          => ~scan_state.running
     /\ (caller.pc = "route_restart" /\ caller'.pc = "idle") => ret' = "started"]_vars

\* The tags file_tags holds for the row with this id
TagsOf(d, id) == {t.tag : t \in {x \in d.file_tags : x.file_id = id}}

\* C33: when Phase 1 of a source has finished, the tags attached to each
\* non-directory row under the label of the source are exactly those
\* categorize_file returns for the name, MIME type, size and modification
\* time of the row, also for a row a rescan has written again.
C33_TagsAreThoseOfTheRow ==
  [][\A k \in ScanIds :
       (task[k].pc = "p1_tail" /\ task'[k].pc \in {"p1_loop", "p2_check"})
         => \A p \in DOMAIN db'.files :
              (Like(p, LabelOf(task[k].sources[task[k].i])) /\ ~db'.files[p].is_directory)
                => TagsOf(db', db'.files[p].id) =
                     categorize_file(db'.files[p].name, db'.files[p].mime_type,
                                     db'.files[p].size, db'.files[p].modified_at)]_vars

\* C33 witness: the second scan has written the row of a.txt again after the
\* file, empty at the first scan, was written, and the row has the tags of
\* a text document that is not empty
C33_RewrittenFileRetagged ==
  /\ Len(db.scan_log) = 2
  /\ db.scan_log[1].status = "completed"
  /\ db.scan_log[1].files_added > 0
  /\ db.scan_log[2].status = "completed"
  /\ budget.fs = 1
  /\ <<"media", "a.txt">> \in DOMAIN db.files
  /\ db.files[<<"media", "a.txt">>].size = 5
  /\ db.files[<<"media", "a.txt">>].id > 3
  /\ TagsOf(db, db.files[<<"media", "a.txt">>].id) = {"document", "text"}

\* C34: for a source s and an SMB path p equal to the root of s or below it,
\* relative_to_smb(smb_to_relative(p, s), [s]) is p with its separators
\* written as backslashes and without a trailing separator, and
\* smb_to_relative(p, s) starts with /label(s).
C34_PathRoundTrip ==
  call.fn = "smb_to_relative" =>
    LET p == call.args[1]
        s == call.args[2]
        rel == call.result[1]
        head == <<SL>> \o label_or_share(s)
    IN  /\ rstrip(replace(call.result[2], SL, BS), BS) = rstrip(replace(p, SL, BS), BS)
        /\ rel = head \/ startswith(rel, head \o <<SL>>)

\* C35: when _extract_text_smb or _extract_metadata_smb returns, the temp
\* file its download created is neither on disk nor in the registry, whether
\* the extractor returned, the extractor raised or the download failed; and
\* after cleanup_all_temps the registry is empty.
C35_NoTempFileLeft ==
  call.fn \in {"_extract_text_smb", "_extract_metadata_smb"} =>
    /\ NewTemp \notin call.result[1].files
    /\ NewTemp \notin call.result[1].registry
    /\ call.result[2].registry = {}

StartScanInsertFails(full) == caller.pc = "idle" /\ StartScan(full, caller, FALSE)

StartNext ==
  \/ \E full \in BOOLEAN : start_scan(full)
  \/ \E full \in BOOLEAN : StartScanInsertFails(full)
  \/ \E k \in ScanIds : TaskStep(k)
  \/ \E k \in ScanIds : TaskRaise(k)

\* The service on each of the sources files of GivenConfigs.
StartSpec == CredInit /\ [][StartNext]_vars

\* C37: running is true only while a scan task exists: when start_scan has
\* returned or raised without starting a thread, running is false, so that
\* a later start_scan is not answered 'Scan already in progress'.
C37_RunningHasATask ==
  scan_state.running => \E k \in ScanIds : Active(k)

\* C38: in every state get_scan_state can return, running = false implies
\* phase = "": no phase is reported while no scan is running.
C38_IdleHasNoPhase == ~scan_state.running => scan_state.phase = ""

\* The configured sources have labels that differ from one another.
DistinctLabels(cfg) ==
  \A i, j \in DOMAIN cfg : i # j => LabelOf(cfg[i]) # LabelOf(cfg[j])

\* C39: add_source and remove_source keep the labels of the configured
\* sources distinct: from a sources file in which no two sources have the
\* same label, no call leads to one in which two have.
C39_LabelsStayDistinct ==
  [][DistinctLabels(get_sources(config)) => DistinctLabels(get_sources(config'))]_vars
====
